---- MODULE Spec2Model ----
(***************************************************************************)
(* The operation engine of the Nix daemon client (pkg/daemon): callers     *)
(* that share one Client, the connection mutex, the buffered writer, the   *)
(* two directions of the connection, the context-cancellation callback,   *)
(* the stderr dispatcher with its log sink, and the NarFromPath copier.    *)
(*                                                                         *)
(* The wire is modelled in units.  A unit the client writes is one request *)
(* part of one operation (the op code, the request fields, a frame, the    *)
(* zero-length terminator).  A unit the daemon writes is one message of    *)
(* its reply (a stderr message, the error header, one trace, one response  *)
(* word, one NAR token), tagged with the operation it answers.             *)
(***************************************************************************)
EXTENDS Integers, Sequences, FiniteSets, TLC

\* ------------------------------------------------------------------ bounds
Callers == {1, 2}
\* operations issued on the connection in one behaviour
MaxOps == 2
\* stderr log messages the daemon sends in one behaviour
MaxLogs == 2
\* trace entries of an Error message
MaxTraces == 1
\* capacity of the caller-supplied log channel
SinkCap == 1
\* units the buffered writer holds before it writes through to the connection
WBufCap == 1
\* units the connection holds in flight towards the daemon
OutCap == 2
\* units the connection holds in flight towards the client
InCap == 1
\* tokens of the NAR the daemon streams
NarLen == 2
\* operations called with a context that can be cancelled (the others are
\* called with context.Background())
Cancellable == {1}

Ops == 1..MaxOps
Kinds == {"doOp", "Do", "stream", "nar"}
ProtoErrs == {"protoTimeout", "protoClosed", "protoTag", "protoWrite", "protoSource", "protoResp"}

VARIABLES
    pc,        \* caller -> position in the operation it runs
    cur,       \* caller -> operation it runs (0: none)
    ntr,       \* caller -> traces readDaemonError still has to read
    kind,      \* operation -> call shape ("none" before it is issued)
    res,       \* operation -> what the call returned to its caller
    hres,      \* operation -> what the returned handle (reader/response) ended with
    ctxDone,   \* operation -> its context is cancelled
    cb,        \* operation -> state of the context.AfterFunc callback
    fired,     \* operation -> where the operation was when its context was cancelled
               \*   ("aborted": cancelled while blocked in connection I/O, and
               \*   blocked in connection I/O when the callback set the deadline)
    nextOp,    \* next operation id
    mu,        \* Client.mu: the operation holding it (0: free)
    lockSeq,   \* operations in the order they acquired mu
    deadline,  \* connection deadline: "none" or "past"
    wbuf,      \* bufio.Writer: buffered units
    wflush,    \* bufio.Writer is writing its full buffer through
    werr,      \* bufio.Writer: sticky error
    out,       \* units written to the connection, in order
    inb,       \* units the daemon wrote to the connection, in order
    rpos,      \* units of inb the client has consumed
    fetched,   \* units of inb the bufio.Reader has taken from the connection
    readBy,    \* for each consumed unit of inb, the operation that consumed it
    dpos,      \* units of out the daemon has consumed
    dmn,       \* daemon: operation it serves, phase, counter
    sink,      \* log channel contents (positions in inb)
    delivered, \* every message sent into the log channel, in order
    consumer,  \* how the application drains the log channel
    cp,        \* operation -> state of the NarFromPath copy goroutine
    pipe,      \* operation -> state of the io.Pipe of NarFromPath
    nread      \* operation -> units the caller read from the NarFromPath reader

callerVars == <<pc, cur, ntr>>
opVars == <<kind, res, hres, ctxDone, cb, fired, nextOp>>
lockVars == <<mu, lockSeq, deadline>>
writeVars == <<wbuf, wflush, werr, out>>
readVars == <<inb, rpos, fetched, readBy>>
daemonVars == <<dpos, dmn>>
sinkVars == <<sink, delivered, consumer>>
narVars == <<cp, pipe, nread>>
clientVars == <<callerVars, opVars, lockVars, writeVars, readVars, daemonVars, sinkVars, narVars>>

\* ProcessStderr run on its own over a byte stream (as the tests run it)
VARIABLES
    stream,    \* the words of the reader ProcessStderr is given
    spos,      \* words of stream read so far
    logs,      \* the log channel: nil or the messages sent into it, in order
    perr,      \* what ProcessStderr returned ("running" until it returns)
    sent       \* the messages the stream was written from, in order

stderrVars == <<stream, spos, logs, perr, sent>>

VARIABLES
    closedAt   \* Client.Close: 0 while the connection is open; once closed, the
               \*   number the next operation invoked gets (or would get)

\* the handshake of one connection with its server
VARIABLES
    hsPc,      \* position of handshakeWithBufIO
    hsLoc,     \* locals of handshakeWithBufIO: negotiated, daemonVersion
    hsW,       \* bufio.Writer: buffered words
    hsOut,     \* words written to the connection, in order
    hsIn,      \* words the server wrote to the connection, in order
    hsRd,      \* words of hsIn the client has read
    hsRet,     \* what newClient returned ("running" until it returns)
    srv        \* the server: what it advertises, its position, words of hsOut it read

hsVars == <<hsPc, hsLoc, hsW, hsOut, hsIn, hsRd, hsRet, srv>>

\* a FramedWriter over a writer, and a FramedReader over what was written
VARIABLES
    fw,        \* FramedWriter: buf, closed
    fwOut,     \* bytes the underlying writer has accepted, in order
    fwLeft,    \* writes the underlying writer accepts before it breaks
    fwLog,     \* the Write and Close calls made, with what they returned
    fr,        \* FramedReader: remaining, prevFrameLen, needHeader, done
    frPos,     \* bytes of fwOut the underlying reader has handed out
    frGot,     \* bytes the FramedReader has returned to its caller, in order
    frRet      \* what the last Read returned: "none", "nil", "EOF", "err"

framedVars == <<fw, fwOut, fwLeft, fwLog, fr, frPos, frGot, frRet>>

\* copyNAR from a source into the pipe of NarFromPath, and the caller's reads
VARIABLES
    narSrc,    \* the bytes the connection delivers before it ends
    narLeft,   \* writes the pipe accepts before the caller closes the reader
    narRes,    \* copyNAR: "running", or what it returned, wrote and consumed
    narGot,    \* bytes the caller has read from the pipe, in order
    narRet     \* what the caller's last Read returned

copierVars == <<narSrc, narLeft, narRes, narGot, narRet>>

\* single calls of the client and of its codecs, each on inputs of its own
VARIABLES
    ams,       \* a call of AddMultipleToStore: its arguments, its position, the
               \*   bufio.Writer, the FramedWriter and what it returned
    qpi,       \* calls of QueryPathInfo on one connection: the daemon's replies,
               \*   the read position, the mutex and what each call returned
    cdc,       \* a codec applied to a value: the value, the bytes written and
               \*   what was read back
    nrd,       \* a narv2 Reader on an archive: its position, its stack of
               \*   directories and the nodes Next has returned
    hdl,       \* the handles of one streaming operation: OpWriter, OpResponse,
               \*   the mutex, the deadline and the calls made on them
    asn        \* one call of AddToStoreNar or AddBuildLog: its arguments, the
               \*   buffered writer, the framed writer and what it returned

laterVars == <<ams, qpi, cdc, nrd, hdl, asn>>

sideVars == <<stderrVars, closedAt, hsVars, framedVars, copierVars, laterVars>>
vars == <<clientVars, sideVars>>

\* ------------------------------------------------------------------ helpers
IsProto(r) == r \in ProtoErrs

\* request parts that follow the op code, by call shape
ReqParts(kd) == IF kd = "stream" THEN <<"req", "frame", "term">> ELSE <<"req">>

\* units of the response body that follow Last, by call shape
BodyLen(kd) == IF kd = "nar" THEN NarLen ELSE IF kd = "stream" THEN 0 ELSE 1

OutUnit(k, part) == [op |-> k, part |-> part]
InUnit(k, t, n) == [op |-> k, t |-> t, n |-> n]

\* A read through the bufio.Reader: served from its buffer when that holds
\* data; else by a read of the connection, which fails once the deadline has
\* passed and waits for data otherwise.
\* The same holds of a closed connection: its reads and writes fail.
ReadFails == fetched = rpos /\ (deadline = "past" \/ closedAt # 0)
ReadReady == rpos < fetched \/ (deadline = "none" /\ closedAt = 0 /\ rpos < Len(inb))
NextIn == inb[rpos + 1]

\* a write to the connection: fails once the deadline has passed, waits for room
ConnWriteFails == deadline = "past" \/ closedAt # 0
ConnWriteReady == deadline = "none" /\ closedAt = 0 /\ Len(out) - dpos < OutCap

\* the ProtocolError of a read or write that failed on the connection
IOErr == IF closedAt # 0 THEN "protoClosed" ELSE "protoTimeout"

\* no handshake is run
HandshakeOff ==
    /\ hsPc = "off"
    /\ hsLoc = [negotiated |-> 0, daemonVersion |-> <<>>]
    /\ hsW = <<>>
    /\ hsOut = <<>>
    /\ hsIn = <<>>
    /\ hsRd = 0
    /\ hsRet = [kind |-> "off"]
    /\ srv = [pc |-> "off"]

\* no single call is made
AmsOff == ams = [pc |-> "off"]
QpiOff == qpi = [pc |-> "off"]
CdcOff == cdc = [pc |-> "off"]
NrdOff == nrd = [pc |-> "off"]
HdlOff == hdl = [pc |-> "off"]
AsnOff == asn = [pc |-> "off"]
LaterOff == AmsOff /\ QpiOff /\ CdcOff /\ NrdOff /\ HdlOff /\ AsnOff

\* no NAR is copied
CopierOff ==
    /\ narSrc = <<>>
    /\ narLeft = [limited |-> TRUE, n |-> 0]
    /\ narRes = [kind |-> "off"]
    /\ narGot = <<>>
    /\ narRet = [kind |-> "none"]

\* no framed stream is written or read
FramedOff ==
    /\ fw = [buf |-> <<>>, closed |-> TRUE]
    /\ fwOut = <<>>
    /\ fwLeft = [limited |-> TRUE, n |-> 0]
    /\ fwLog = <<>>
    /\ fr = [remaining |-> 0, prevFrameLen |-> 0, needHeader |-> TRUE, done |-> TRUE]
    /\ frPos = 0
    /\ frGot = <<>>
    /\ frRet = "none"

\* ProcessStderr is not run on a stream of its own
StderrOff ==
    /\ stream = <<>>
    /\ spos = 0
    /\ logs = [nil |-> TRUE, msgs |-> <<>>]
    /\ perr = [kind |-> "off"]
    /\ sent = <<>>

ClientInit ==
    /\ pc = [p \in Callers |-> "idle"]
    /\ cur = [p \in Callers |-> 0]
    /\ ntr = [p \in Callers |-> 0]
    /\ kind = [k \in Ops |-> "none"]
    /\ res = [k \in Ops |-> "none"]
    /\ hres = [k \in Ops |-> "none"]
    /\ ctxDone = [k \in Ops |-> FALSE]
    /\ cb = [k \in Ops |-> "none"]
    /\ fired = [k \in Ops |-> "none"]
    /\ nextOp = 1
    /\ mu = 0
    /\ lockSeq = <<>>
    /\ deadline = "none"
    /\ wbuf = <<>>
    /\ wflush = FALSE
    /\ werr = FALSE
    /\ out = <<>>
    /\ inb = <<>>
    /\ rpos = 0
    /\ fetched = 0
    /\ readBy = <<>>
    /\ dpos = 0
    /\ dmn = [cur |-> 0, ph |-> "idle", cnt |-> 0]
    /\ sink = <<>>
    /\ delivered = <<>>
    /\ consumer \in {"nil", "app"}
    /\ cp = [k \in Ops |-> "off"]
    /\ pipe = [k \in Ops |-> "none"]
    /\ nread = [k \in Ops |-> <<>>]

Init ==
    /\ ClientInit
    /\ StderrOff
    /\ closedAt = 0
    /\ HandshakeOff
    /\ FramedOff
    /\ CopierOff
    /\ LaterOff

\* ------------------------------------------------------------------ lock
\* Client.release / OpWriter.release / OpResponse.Close: deregister the
\* cancellation callback, clear the deadline, unlock.  A callback that was
\* already started is not stopped by cancel().
release(k) ==
    /\ cb' = [cb EXCEPT ![k] = IF @ = "armed" THEN "stopped" ELSE @]
    /\ deadline' = "none"
    /\ mu' = 0
    /\ UNCHANGED lockSeq

\* Client.lockForCtx: Lock, then context.AfterFunc, which starts the callback
\* at once (in its own goroutine) when the context is already cancelled.
lockForCtx(k) ==
    /\ mu = 0
    /\ mu' = k
    /\ lockSeq' = Append(lockSeq, k)
    /\ cb' = [cb EXCEPT ![k] = IF ctxDone[k] THEN "running" ELSE "armed"]
    /\ UNCHANGED deadline

Goto(p, l) == pc' = [pc EXCEPT ![p] = l]

\* the call returns r to its caller
Return(p, r) ==
    /\ res' = [res EXCEPT ![cur[p]] = r]
    /\ pc' = [pc EXCEPT ![p] = "idle"]
    /\ cur' = [cur EXCEPT ![p] = 0]

\* an error path that returns without releasing
ReturnKeepLock(p, e) ==
    /\ Return(p, e)
    /\ UNCHANGED <<cb, mu, lockSeq, deadline>>

\* release, then return r to the caller (every error path; doOp's deferred release)
ReleaseReturn(p, e) ==
    /\ release(cur[p])
    /\ Return(p, e)

\* the part of the state a step that neither returns nor releases leaves alone
StepOnly(p, l) ==
    /\ Goto(p, l)
    /\ UNCHANGED <<cur, res, cb, mu, lockSeq, deadline>>

\* ------------------------------------------------------------------ caller
\* A caller invokes an operation.  Every call shape starts with the same two
\* steps (the ctx.Err() check and lockForCtx), so the shape is recorded with
\* the first step that differs, the one after the lock.
Call(p) ==
    /\ pc[p] = "idle"
    /\ nextOp <= MaxOps
    /\ cur' = [cur EXCEPT ![p] = nextOp]
    /\ nextOp' = nextOp + 1
    /\ Goto(p, "check")
    /\ UNCHANGED <<ntr, kind, res, hres, ctxDone, cb, fired>>
    /\ UNCHANGED <<lockVars, writeVars, readVars, daemonVars, sinkVars, narVars, sideVars>>

\* an entry that does not look at the context
CheckSkip(p) ==
    /\ pc[p] = "check"
    /\ Goto(p, "lock")
    /\ UNCHANGED <<cur, res>>
    /\ UNCHANGED <<ntr, kind, hres, ctxDone, cb, fired, nextOp>>
    /\ UNCHANGED <<lockVars, writeVars, readVars, daemonVars, sinkVars, narVars, sideVars>>

\* if err := ctx.Err(); err != nil { return err }
Check(p) ==
    /\ pc[p] = "check"
    /\ IF ctxDone[cur[p]]
       THEN Return(p, "ctxErr")
       ELSE Goto(p, "lock") /\ UNCHANGED <<cur, res>>
    /\ UNCHANGED <<ntr, kind, hres, ctxDone, cb, fired, nextOp>>
    /\ UNCHANGED <<lockVars, writeVars, readVars, daemonVars, sinkVars, narVars, sideVars>>

\* cancel := c.lockForCtx(ctx)
Lock(p) ==
    /\ pc[p] = "lock"
    /\ lockForCtx(cur[p])
    /\ \E kd \in Kinds : kind' = [kind EXCEPT ![cur[p]] = kd]
    /\ Goto(p, "writeOp")
    /\ UNCHANGED <<cur, ntr, res, hres, ctxDone, fired, nextOp>>
    /\ UNCHANGED <<writeVars, readVars, daemonVars, sinkVars, narVars, sideVars>>

\* One step of a Write on the bufio.Writer: a sticky error fails it; a full
\* buffer is first written through to the connection; else the unit is buffered.
BufWrite(p, part, nxt) ==
    IF werr
    THEN /\ ReleaseReturn(p, "protoWrite")
         /\ UNCHANGED writeVars
    ELSE IF wflush
    THEN IF ConnWriteFails
         THEN /\ werr' = TRUE
              /\ wflush' = FALSE
              /\ ReleaseReturn(p, IOErr)
              /\ UNCHANGED <<wbuf, out>>
         ELSE /\ ConnWriteReady
              /\ out' = Append(out, Head(wbuf))
              /\ wbuf' = Tail(wbuf)
              /\ wflush' = (Len(wbuf) > 1)
              /\ UNCHANGED <<werr, pc, cur, res, cb, mu, lockSeq, deadline>>
    ELSE IF Len(wbuf) < WBufCap
    THEN /\ wbuf' = Append(wbuf, OutUnit(cur[p], part))
         /\ StepOnly(p, nxt)
         /\ UNCHANGED <<wflush, werr, out>>
    ELSE /\ wflush' = TRUE
         /\ UNCHANGED <<wbuf, werr, out, pc, cur, res, cb, mu, lockSeq, deadline>>

\* One step of bufio.Writer.Flush.
BufFlush(p, nxt) ==
    IF werr
    THEN /\ ReleaseReturn(p, "protoWrite")
         /\ UNCHANGED writeVars
    ELSE IF wbuf = <<>>
    THEN /\ StepOnly(p, nxt)
         /\ UNCHANGED writeVars
    ELSE IF ConnWriteFails
    THEN /\ werr' = TRUE
         /\ ReleaseReturn(p, IOErr)
         /\ UNCHANGED <<wbuf, wflush, out>>
    ELSE /\ ConnWriteReady
         /\ out' = Append(out, Head(wbuf))
         /\ wbuf' = Tail(wbuf)
         /\ UNCHANGED <<wflush, werr, pc, cur, res, cb, mu, lockSeq, deadline>>

WriteRest == UNCHANGED <<ntr, kind, hres, ctxDone, fired, nextOp,
                         readVars, daemonVars, sinkVars, narVars, sideVars>>

\* wire.WriteUint64(c.w, uint64(op))
WriteOp(p) ==
    /\ pc[p] = "writeOp"
    /\ BufWrite(p, "code", "writeReq")
    /\ WriteRest

\* writeReq(c.w) / io.Copy(c.w, req) / the unframed preamble of a streaming op
WriteReq(p) ==
    /\ pc[p] = "writeReq"
    /\ BufWrite(p, "req", "flush")
    /\ WriteRest

\* c.w.Flush() (ow.Flush() before the framed payload of a streaming op)
Flush(p) ==
    /\ pc[p] = "flush"
    /\ BufFlush(p, IF kind[cur[p]] = "stream" THEN "frame" ELSE "stderr")
    /\ WriteRest

\* io.Copy(fw, source): the payload frame reaches the buffered writer
Frame(p) ==
    /\ pc[p] = "frame"
    /\ BufWrite(p, "frame", "term")
    /\ WriteRest

\* io.Copy(fw, source) fails on the caller's source: ow.Abort()
SourceFails(p) ==
    /\ pc[p] = "frame"
    /\ ~wflush
    /\ ReleaseReturn(p, "protoSource")
    /\ UNCHANGED writeVars
    /\ WriteRest

\* fw.Close(): the zero-length terminator
Term(p) ==
    /\ pc[p] = "term"
    /\ BufWrite(p, "term", "flushReq")
    /\ WriteRest

\* a CloseRequest that goes on to the stderr stream without flushing
FlushReqSkipped(p) ==
    /\ pc[p] = "flushReq"
    /\ IF werr
       THEN /\ ReleaseReturn(p, "protoWrite")
       ELSE /\ StepOnly(p, "stderr")
    /\ UNCHANGED writeVars
    /\ WriteRest

\* OpWriter.CloseRequest: ow.w.Flush()
FlushReq(p) ==
    /\ pc[p] = "flushReq"
    /\ BufFlush(p, "stderr")
    /\ WriteRest

\* operation k takes the next unit; a read of the connection brings all that
\* is in flight into the bufio.Reader
Consume1(k) ==
    /\ rpos' = rpos + 1
    /\ fetched' = IF rpos < fetched THEN fetched ELSE Len(inb)
    /\ readBy' = Append(readBy, k)
    /\ UNCHANGED inb

\* ------------------------------------------------------------------ stderr
ReadRest == UNCHANGED <<kind, ctxDone, fired, nextOp, writeVars, daemonVars, sideVars>>

\* a doOp that unlocks before it reads the response
AfterStderrUnlock(p) ==
    LET k == cur[p] IN
    CASE kind[k] = "doOp" ->
            /\ release(k)
            /\ Goto(p, "resp")
            /\ UNCHANGED <<cur, res, narVars>>
      [] kind[k] = "Do" ->
            /\ Goto(p, "respRead")
            /\ res' = [res EXCEPT ![k] = "ok"]
            /\ UNCHANGED <<cur, cb, mu, lockSeq, deadline, narVars>>
      [] kind[k] = "stream" ->
            /\ StepOnly(p, "respClose")
            /\ UNCHANGED narVars
      [] kind[k] = "nar" ->
            /\ Goto(p, "narRead")
            /\ res' = [res EXCEPT ![k] = "ok"]
            /\ cp' = [cp EXCEPT ![k] = "read"]
            /\ pipe' = [pipe EXCEPT ![k] = "open"]
            /\ UNCHANGED <<cur, cb, mu, lockSeq, deadline, nread>>

\* what follows a successful ProcessStderr, by call shape: doOp reads the
\* response; Do returns an OpResponse; CloseRequest returns an OpResponse that
\* the wrapper closes; NarFromPath starts the copy goroutine and returns the
\* pipe reader.
AfterStderr(p) ==
    LET k == cur[p] IN
    CASE kind[k] = "doOp" ->
            /\ StepOnly(p, "resp")
            /\ UNCHANGED narVars
      [] kind[k] = "Do" ->
            /\ Goto(p, "respRead")
            /\ res' = [res EXCEPT ![k] = "ok"]
            /\ UNCHANGED <<cur, cb, mu, lockSeq, deadline, narVars>>
      [] kind[k] = "stream" ->
            /\ StepOnly(p, "respClose")
            /\ UNCHANGED narVars
      [] kind[k] = "nar" ->
            /\ Goto(p, "narRead")
            /\ res' = [res EXCEPT ![k] = "ok"]
            /\ cp' = [cp EXCEPT ![k] = "read"]
            /\ pipe' = [pipe EXCEPT ![k] = "open"]
            /\ UNCHANGED <<cur, cb, mu, lockSeq, deadline, nread>>

\* a readDaemonError that stops after the header
readDaemonErrorNoTraces(p, n) ==
    /\ ReleaseReturn(p, "daemonErr")
    /\ UNCHANGED ntr

\* readDaemonError after the header: nrTraces trace entries follow
readDaemonError(p, n) ==
    IF n = 0
    THEN /\ ReleaseReturn(p, "daemonErr")
         /\ UNCHANGED ntr
    ELSE /\ StepOnly(p, "errTrace")
         /\ ntr' = [ntr EXCEPT ![p] = n]

\* a ProcessStderr that takes the first log message for the terminator
ProcessStderrStopsAtNext(p) ==
    LET k == cur[p] IN
    /\ pc[p] = "stderr"
    /\ IF ReadFails
       THEN /\ ReleaseReturn(p, IOErr)
            /\ UNCHANGED <<ntr, readVars, narVars>>
       ELSE /\ ReadReady
            /\ Consume1(k)
            /\ LET u == NextIn IN
               CASE u.t \in {"Last", "Next"} ->
                       /\ AfterStderr(p)
                       /\ UNCHANGED ntr
                 [] u.t = "Error" ->
                       /\ readDaemonError(p, u.n)
                       /\ UNCHANGED narVars
                 [] OTHER ->
                       /\ ReleaseReturn(p, "protoTag")
                       /\ UNCHANGED <<ntr, narVars>>
    /\ UNCHANGED <<hres, sinkVars>>
    /\ ReadRest

\* ProcessStderr: one turn of the loop (read the tag word and the message)
ProcessStderr(p) ==
    LET k == cur[p] IN
    /\ pc[p] = "stderr"
    /\ IF ReadFails
       THEN /\ ReleaseReturn(p, IOErr)
            /\ UNCHANGED <<ntr, readVars, narVars>>
       ELSE /\ ReadReady
            /\ Consume1(k)
            /\ LET u == NextIn IN
               CASE u.t = "Last" ->
                       /\ AfterStderr(p)
                       /\ UNCHANGED ntr
                 [] u.t = "Error" ->
                       /\ readDaemonError(p, u.n)
                       /\ UNCHANGED narVars
                 [] u.t = "Next" ->
                       /\ StepOnly(p, IF consumer = "nil" THEN "stderr" ELSE "send")
                       /\ UNCHANGED <<ntr, narVars>>
                 [] OTHER ->
                       /\ ReleaseReturn(p, "protoTag")
                       /\ UNCHANGED <<ntr, narVars>>
    /\ UNCHANGED <<hres, sinkVars>>
    /\ ReadRest

\* a send that drops the message when the channel is full
SendLogNonBlocking(p) ==
    /\ pc[p] = "send"
    /\ IF Len(sink) < SinkCap
       THEN sink' = Append(sink, rpos) /\ delivered' = Append(delivered, rpos)
       ELSE UNCHANGED <<sink, delivered>>
    /\ StepOnly(p, "stderr")
    /\ UNCHANGED <<ntr, hres, consumer, readVars, narVars>>
    /\ ReadRest

\* logs <- LogMessage{...}: a blocking send of the message just read
SendLog(p) ==
    /\ pc[p] = "send"
    /\ Len(sink) < SinkCap
    /\ sink' = Append(sink, rpos)
    /\ delivered' = Append(delivered, rpos)
    /\ StepOnly(p, "stderr")
    /\ UNCHANGED <<ntr, hres, consumer, readVars, narVars>>
    /\ ReadRest

\* readDaemonError: one trace entry (havePos, message)
ReadTrace(p) ==
    /\ pc[p] = "errTrace"
    /\ IF ReadFails
       THEN /\ ReleaseReturn(p, IOErr)
            /\ ntr' = [ntr EXCEPT ![p] = 0]
            /\ UNCHANGED readVars
       ELSE /\ ReadReady
            /\ Consume1(cur[p])
            /\ ntr' = [ntr EXCEPT ![p] = @ - 1]
            /\ IF ntr[p] = 1
               THEN ReleaseReturn(p, "daemonErr")
               ELSE StepOnly(p, "errTrace")
    /\ UNCHANGED <<hres, sinkVars, narVars>>
    /\ ReadRest

\* what parsing unit u as a response gives: a response parses; bytes that are
\* no response may parse or not
Parsed(u) == IF u.t = "Resp" THEN {"ok"} ELSE {"ok", "protoResp"}

\* doOp: readResp(c.r), then the deferred release
ReadResp(p) ==
    /\ pc[p] = "resp"
    /\ IF ReadFails
       THEN /\ ReleaseReturn(p, IOErr)
            /\ UNCHANGED readVars
       ELSE /\ ReadReady
            /\ Consume1(cur[p])
            /\ \E r \in Parsed(NextIn) : ReleaseReturn(p, r)
    /\ UNCHANGED <<ntr, hres, sinkVars, narVars>>
    /\ ReadRest

\* OpResponse.Read by the caller of Do
RespRead(p) ==
    /\ pc[p] = "respRead"
    /\ IF ReadFails
       THEN /\ hres' = [hres EXCEPT ![cur[p]] = "err"]
            /\ UNCHANGED readVars
       ELSE /\ ReadReady
            /\ Consume1(cur[p])
            /\ \E r \in Parsed(NextIn) :
                  hres' = [hres EXCEPT ![cur[p]] = IF r = "ok" THEN "ok" ELSE "err"]
    /\ StepOnly(p, "respClose")
    /\ UNCHANGED <<ntr, sinkVars, narVars>>
    /\ ReadRest

\* OpResponse.Close: release once; the streaming wrappers return here
RespClose(p) ==
    /\ pc[p] = "respClose"
    /\ release(cur[p])
    /\ pc' = [pc EXCEPT ![p] = "idle"]
    /\ cur' = [cur EXCEPT ![p] = 0]
    /\ res' = [res EXCEPT ![cur[p]] = "ok"]
    /\ UNCHANGED <<ntr, hres, readVars, sinkVars, narVars>>
    /\ ReadRest

\* The application receives from the log channel in the goroutine of caller
\* LogReader, between that caller's operations: a goroutine that only drains
\* the channel is that caller never invoking an operation.
LogReader == 1
ConsumerReady == consumer = "app" /\ pc[LogReader] = "idle"

ConsumeLog ==
    /\ sink # <<>>
    /\ ConsumerReady
    /\ sink' = Tail(sink)
    /\ UNCHANGED <<delivered, consumer>>
    /\ UNCHANGED <<callerVars, opVars, lockVars, writeVars, readVars, daemonVars, narVars, sideVars>>

\* ------------------------------------------------------------------ NarFromPath
NarRest == UNCHANGED <<ntr, kind, ctxDone, fired, nextOp, writeVars, daemonVars, sinkVars, sideVars>>

\* copyNAR: the goroutine reads the next token from the connection
CopyRead(k) ==
    /\ cp[k] = "read"
    /\ IF ReadFails
       THEN /\ cp' = [cp EXCEPT ![k] = "relErr"]
            /\ UNCHANGED readVars
       ELSE /\ ReadReady
            /\ Consume1(k)
            /\ cp' = [cp EXCEPT ![k] = "write"]
    /\ UNCHANGED <<pc, cur, res, hres, cb, lockVars, pipe, nread>>
    /\ NarRest

\* a copy that takes the first token for the end of the archive
PipeReadShort(p) ==
    LET k == cur[p] IN
    /\ pc[p] = "narRead"
    /\ cp[k] = "write"
    /\ pipe[k] = "open"
    /\ nread' = [nread EXCEPT ![k] = Append(@, rpos)]
    /\ cp' = [cp EXCEPT ![k] = "relOk"]
    /\ UNCHANGED <<pc, cur, res, hres, cb, lockVars, readVars, pipe>>
    /\ UNCHANGED <<ntr, kind, ctxDone, fired, nextOp, writeVars, daemonVars, sinkVars, sideVars>>

\* the token is handed over the pipe: pw.Write returns when the caller's Read
\* has taken it.  A token that is not part of the archive ends the copy with
\* an error after it was echoed; the outermost ")" ends it with success.
PipeRead(p) ==
    LET k == cur[p]
        u == inb[rpos] IN
    /\ pc[p] = "narRead"
    /\ cp[k] = "write"
    /\ pipe[k] = "open"
    /\ nread' = [nread EXCEPT ![k] = Append(@, rpos)]
    /\ cp' = [cp EXCEPT ![k] = IF u.t # "Nar" THEN "relErr"
                               ELSE IF u.n = 1 THEN "relOk" ELSE "read"]
    /\ UNCHANGED <<pc, cur, res, hres, cb, lockVars, readVars, pipe>>
    /\ NarRest

\* pw.Write fails with io.ErrClosedPipe once the caller has closed the reader
CopyWriteFails(k) ==
    /\ cp[k] = "write"
    /\ pipe[k] = "closed"
    /\ cp' = [cp EXCEPT ![k] = "relErr"]
    /\ UNCHANGED <<pc, cur, res, hres, cb, lockVars, readVars, pipe, nread>>
    /\ NarRest

\* c.release(cancel) in the goroutine, once copyNAR has returned
CopyRelease(k) ==
    /\ cp[k] \in {"relOk", "relErr"}
    /\ release(k)
    /\ cp' = [cp EXCEPT ![k] = IF @ = "relOk" THEN "closeOk" ELSE "closeErr"]
    /\ UNCHANGED <<pc, cur, res, hres, readVars, pipe, nread>>
    /\ NarRest

\* pw.CloseWithError(err): the reader sees EOF, or the error
CopyClose(k) ==
    /\ cp[k] \in {"closeOk", "closeErr"}
    /\ pipe' = [pipe EXCEPT ![k] = IF @ # "open" THEN @
                                   ELSE IF cp[k] = "closeOk" THEN "eof" ELSE "err"]
    /\ cp' = [cp EXCEPT ![k] = "off"]
    /\ UNCHANGED <<pc, cur, res, hres, cb, lockVars, readVars, nread>>
    /\ NarRest

\* the caller's Read returns io.EOF or the copy error
PipeEnd(p) ==
    LET k == cur[p] IN
    /\ pc[p] = "narRead"
    /\ pipe[k] \in {"eof", "err"}
    /\ hres' = [hres EXCEPT ![k] = IF pipe[k] = "eof" THEN "ok" ELSE "err"]
    /\ Goto(p, "narClose")
    /\ UNCHANGED <<cur, res, cb, lockVars, readVars, narVars>>
    /\ NarRest

\* the caller closes the reader: after the end, or before it
PipeClose(p) ==
    LET k == cur[p] IN
    /\ pc[p] \in {"narRead", "narClose"}
    /\ pipe' = [pipe EXCEPT ![k] = IF @ = "open" THEN "closed" ELSE @]
    /\ hres' = [hres EXCEPT ![k] = IF @ = "none" THEN "early" ELSE @]
    /\ pc' = [pc EXCEPT ![p] = "idle"]
    /\ cur' = [cur EXCEPT ![p] = 0]
    /\ UNCHANGED <<res, cb, lockVars, readVars, cp, nread>>
    /\ NarRest

\* ------------------------------------------------------------------ cancellation
\* the operation is waiting in a read or a write of the connection
BlockedIO(k) ==
    \/ \E p \in Callers :
          /\ cur[p] = k
          /\ \/ pc[p] \in {"stderr", "errTrace", "resp", "respRead"} /\ rpos = Len(inb)
             \/ /\ pc[p] \in {"writeOp", "writeReq", "frame", "term", "flush", "flushReq"}
                /\ wbuf # <<>>
                /\ wflush \/ pc[p] \in {"flush", "flushReq"}
                /\ Len(out) - dpos >= OutCap
    \/ cp[k] = "read" /\ rpos = Len(inb)

Where(k) ==
    IF \E p \in Callers : cur[p] = k /\ pc[p] = "check" THEN "check"
    ELSE IF \E p \in Callers : cur[p] = k /\ pc[p] = "lock" THEN "lock"
    ELSE IF mu = k /\ deadline = "none" /\ BlockedIO(k) THEN "blocked"
    ELSE "busy"

InProgress(k) ==
    \/ \E p \in Callers : cur[p] = k
    \/ cp[k] # "off"

\* the caller's context is cancelled: a registered callback is started in its
\* own goroutine
Cancel(k) ==
    /\ k \in Cancellable
    /\ InProgress(k)
    /\ ~ctxDone[k]
    /\ ctxDone' = [ctxDone EXCEPT ![k] = TRUE]
    /\ fired' = [fired EXCEPT ![k] = Where(k)]
    /\ cb' = [cb EXCEPT ![k] = IF @ = "armed" THEN "running" ELSE @]
    /\ UNCHANGED <<kind, res, hres, nextOp, mu, lockSeq, deadline>>
    /\ UNCHANGED <<callerVars, writeVars, readVars, daemonVars, sinkVars, narVars, sideVars>>

\* a callback that leaves the deadline alone
RunCallbackNoDeadline(k) ==
    /\ cb[k] = "running"
    /\ cb' = [cb EXCEPT ![k] = "done"]
    /\ fired' = [fired EXCEPT ![k] = IF @ = "blocked" /\ mu = k /\ BlockedIO(k)
                                     THEN "aborted" ELSE @]
    /\ UNCHANGED <<kind, res, hres, ctxDone, nextOp, mu, lockSeq, deadline>>
    /\ UNCHANGED <<callerVars, writeVars, readVars, daemonVars, sinkVars, narVars, sideVars>>

\* the callback: c.conn.SetDeadline(time.Now())
RunCallback(k) ==
    /\ cb[k] = "running"
    /\ cb' = [cb EXCEPT ![k] = "done"]
    /\ deadline' = "past"
    /\ fired' = [fired EXCEPT ![k] = IF @ = "blocked" /\ mu = k /\ BlockedIO(k)
                                     THEN "aborted" ELSE @]
    /\ UNCHANGED <<kind, res, hres, ctxDone, nextOp, mu, lockSeq>>
    /\ UNCHANGED <<callerVars, writeVars, readVars, daemonVars, sinkVars, narVars, sideVars>>

\* ------------------------------------------------------------------ daemon
\* The daemon reads one request at a time.  Bytes of another request in the
\* middle of one leave it out of step with the client for good.
DaemonRecv ==
    LET u == out[dpos + 1] IN
    /\ dmn.ph \in {"idle", "req"}
    /\ dpos < Len(out)
    /\ dpos' = dpos + 1
    /\ dmn' = IF dmn.ph = "idle"
              THEN IF u.part = "code"
                   THEN [cur |-> u.op, ph |-> "req", cnt |-> Len(ReqParts(kind[u.op]))]
                   ELSE [cur |-> 0, ph |-> "dead", cnt |-> 0]
              ELSE IF u.op = dmn.cur /\ u.part # "code"
                   THEN [dmn EXCEPT !.ph = IF dmn.cnt = 1 THEN "logs" ELSE "req",
                                    !.cnt = IF dmn.cnt = 1 THEN 0 ELSE dmn.cnt - 1]
                   ELSE [cur |-> 0, ph |-> "dead", cnt |-> 0]
    /\ UNCHANGED <<callerVars, opVars, lockVars, writeVars, readVars, sinkVars, narVars, sideVars>>

DaemonPut(u) ==
    /\ closedAt = 0
    /\ Len(inb) - rpos < InCap
    /\ inb' = Append(inb, u)
    /\ UNCHANGED <<rpos, fetched, readBy>>
DaemonIdle == [cur |-> 0, ph |-> "idle", cnt |-> 0]
DaemonRest == UNCHANGED <<dpos, callerVars, opVars, lockVars, writeVars, sinkVars, narVars, sideVars>>

\* units of inb that are log messages
RECURSIVE CountLogs(_)
CountLogs(s) ==
    IF s = <<>> THEN 0
    ELSE (IF Head(s).t = "Next" THEN 1 ELSE 0) + CountLogs(Tail(s))

\* a log message before the terminal message
DaemonLog ==
    /\ dmn.ph = "logs"
    /\ CountLogs(inb) < MaxLogs
    /\ DaemonPut(InUnit(dmn.cur, "Next", 0))
    /\ UNCHANGED dmn
    /\ DaemonRest

\* Last: the response body follows
DaemonLast ==
    /\ dmn.ph = "logs"
    /\ DaemonPut(InUnit(dmn.cur, "Last", 0))
    /\ dmn' = IF BodyLen(kind[dmn.cur]) = 0 THEN DaemonIdle
              ELSE [dmn EXCEPT !.ph = "body", !.cnt = BodyLen(kind[dmn.cur])]
    /\ DaemonRest

\* Error: the header with its trace count; the request is over
DaemonError ==
    /\ dmn.ph = "logs"
    /\ \E n \in 0..MaxTraces :
          /\ DaemonPut(InUnit(dmn.cur, "Error", n))
          /\ dmn' = IF n = 0 THEN DaemonIdle ELSE [dmn EXCEPT !.ph = "traces", !.cnt = n]
    /\ DaemonRest

\* one unit of the response body, or one trace entry
DaemonBody ==
    /\ dmn.ph \in {"body", "traces"}
    /\ DaemonPut(InUnit(dmn.cur,
                        IF dmn.ph = "traces" THEN "Trace"
                        ELSE IF kind[dmn.cur] = "nar" THEN "Nar" ELSE "Resp",
                        IF dmn.cnt = 1 THEN 1 ELSE 0))
    /\ dmn' = IF dmn.cnt = 1 THEN DaemonIdle ELSE [dmn EXCEPT !.cnt = @ - 1]
    /\ DaemonRest

\* ------------------------------------------------------------------ system
CallerStep(p) ==
    \/ Call(p) \/ Check(p) \/ Lock(p)
    \/ WriteOp(p) \/ WriteReq(p) \/ Flush(p)
    \/ Frame(p) \/ SourceFails(p) \/ Term(p) \/ FlushReq(p)
    \/ ProcessStderr(p) \/ SendLog(p) \/ ReadTrace(p)
    \/ ReadResp(p) \/ RespRead(p) \/ RespClose(p)
    \/ PipeRead(p) \/ PipeEnd(p) \/ PipeClose(p)

CopyStep(k) == CopyRead(k) \/ CopyWriteFails(k) \/ CopyRelease(k) \/ CopyClose(k)

DaemonStep == DaemonRecv \/ DaemonLog \/ DaemonLast \/ DaemonError \/ DaemonBody

Next ==
    \/ \E p \in Callers : CallerStep(p)
    \/ \E k \in Ops : CopyStep(k)
    \/ \E k \in Ops : Cancel(k)
    \/ \E k \in Ops : RunCallback(k)
    \/ ConsumeLog
    \/ DaemonStep

Spec == Init /\ [][Next]_vars

\* ------------------------------------------------------------------ Close
\* Client.Close: c.conn.Close(), at any time and without the mutex
Close ==
    /\ closedAt = 0
    /\ closedAt' = nextOp
    /\ UNCHANGED <<clientVars, stderrVars, hsVars, framedVars, copierVars, laterVars>>

\* the client with an application that closes it
NextClose == Next \/ Close

SpecClose == Init /\ [][NextClose]_vars

\* ------------------------------------------------------------------ wire
\* The byte stream is modelled in words of eight bytes: every read and write
\* of the protocol is a whole number of words.  A string is a sequence of bytes.

\* stderr message types (types.go)
LogLast == 1634497651
LogError == 1668838512
LogNext == 1869376871
LogRead == 1684108385
LogWrite == 1684108310
LogStartActivity == 1398035028
LogStopActivity == 1398034256
LogResult == 1381190740
LogTypes == {LogLast, LogError, LogNext, LogRead, LogWrite,
             LogStartActivity, LogStopActivity, LogResult}

\* the limit ProcessStderr gives to wire.ReadString
MaxStringSize == 67108864

\* byte j (1..8) of the little-endian form of v
RECURSIVE ByteOf(_, _)
ByteOf(v, j) == IF j = 1 THEN v % 256 ELSE ByteOf(v \div 256, j - 1)

\* binary.LittleEndian.PutUint64
PutUint64(v) == [j \in 1..8 |-> ByteOf(v, j)]

\* binary.LittleEndian.Uint64
Uint64(w) ==
    w[1] + 256 * (w[2] + 256 * (w[3] + 256 * (w[4]
         + 256 * (w[5] + 256 * (w[6] + 256 * (w[7] + 256 * w[8]))))))

\* bytes that align contentLen to the next 8-byte boundary
paddingLen(contentLen) == (8 - (contentLen % 8)) % 8

\* words a string of n bytes occupies after its length word
DataWords(n) == (n + paddingLen(n)) \div 8

\* the test helpers that build wire data
writeTestUint64(v) == <<PutUint64(v)>>
writeTestString(s) ==
    writeTestUint64(Len(s)) \o
    [i \in 1..DataWords(Len(s)) |->
        [j \in 1..8 |-> IF 8 * (i - 1) + j <= Len(s) THEN s[8 * (i - 1) + j] ELSE 0]]

\* The result of a read at word pos of stream s: what was read and the
\* position after it, or a failure.
Got(v, pos) == [ok |-> TRUE, v |-> v, pos |-> pos]
Fail(pos) == [ok |-> FALSE, v |-> <<>>, pos |-> pos]

\* wire.ReadUint64: one word; EOF is an error
ReadUint64(s, pos) ==
    IF pos < Len(s) THEN Got(Uint64(s[pos + 1]), pos + 1) ELSE Fail(pos)

\* wire.ReadString: the length word, the bytes, the padding.  Fails on a
\* length above max, on a truncated stream and on non-zero padding.
ReadString(s, pos, max) ==
    LET h == ReadUint64(s, pos)
        n == h.v
        byte(i) == s[h.pos + ((i - 1) \div 8) + 1][((i - 1) % 8) + 1]
    IN  IF ~h.ok THEN h
        ELSE IF n > max THEN Fail(h.pos)
        ELSE IF h.pos + DataWords(n) > Len(s) THEN Fail(Len(s))
        ELSE IF \E i \in (n + 1)..(n + paddingLen(n)) : byte(i) # 0
             THEN Fail(h.pos + DataWords(n))
        ELSE Got([i \in 1..n |-> byte(i)], h.pos + DataWords(n))

\* ------------------------------------------------------------------ ProcessStderr on a stream
\* readFields: count typed fields, each a type word (0 integer, 1 string) and
\* its value
RECURSIVE readFields(_, _, _)
readFields(s, pos, count) ==
    IF count = 0 THEN Got(<<>>, pos)
    ELSE LET fieldType == ReadUint64(s, pos)
             val == IF fieldType.v = 0 THEN ReadUint64(s, fieldType.pos)
                    ELSE ReadString(s, fieldType.pos, MaxStringSize)
             field == IF fieldType.v = 0
                      THEN [Int |-> val.v, String |-> <<>>, IsInt |-> TRUE]
                      ELSE [Int |-> 0, String |-> val.v, IsInt |-> FALSE]
             rest == readFields(s, val.pos, count - 1)
         IN  IF ~fieldType.ok THEN fieldType
             ELSE IF fieldType.v \notin {0, 1} THEN Fail(fieldType.pos)
             ELSE IF ~val.ok THEN val
             ELSE IF ~rest.ok THEN rest
             ELSE Got(<<field>> \o rest.v, rest.pos)

\* readActivity: id, level, type, text, nrFields, fields, parent
readActivity(s, pos) ==
    LET id == ReadUint64(s, pos)
        level == ReadUint64(s, id.pos)
        actType == ReadUint64(s, level.pos)
        text == ReadString(s, actType.pos, MaxStringSize)
        nrFields == ReadUint64(s, text.pos)
        fields == readFields(s, nrFields.pos, nrFields.v)
        parent == ReadUint64(s, fields.pos)
    IN  IF ~id.ok THEN id
        ELSE IF ~level.ok THEN level
        ELSE IF ~actType.ok THEN actType
        ELSE IF ~text.ok THEN text
        ELSE IF ~nrFields.ok THEN nrFields
        ELSE IF ~fields.ok THEN fields
        ELSE IF ~parent.ok THEN parent
        ELSE Got([ID |-> id.v, Level |-> level.v, Type |-> actType.v, Text |-> text.v,
                  Fields |-> fields.v, Parent |-> parent.v], parent.pos)

\* readActivityResult: id, type, nrFields, fields
readActivityResult(s, pos) ==
    LET id == ReadUint64(s, pos)
        resType == ReadUint64(s, id.pos)
        nrFields == ReadUint64(s, resType.pos)
        fields == readFields(s, nrFields.pos, nrFields.v)
    IN  IF ~id.ok THEN id
        ELSE IF ~resType.ok THEN resType
        ELSE IF ~nrFields.ok THEN nrFields
        ELSE IF ~fields.ok THEN fields
        ELSE Got([ID |-> id.v, Type |-> resType.v, Fields |-> fields.v], fields.pos)

\* a trace loop that drops the havePos word of each entry it has read
RECURSIVE readTracesNoPos(_, _, _)
readTracesNoPos(s, pos, n) ==
    IF n = 0 THEN Got(<<>>, pos)
    ELSE LET havePos == ReadUint64(s, pos)
             traceMsg == ReadString(s, havePos.pos, MaxStringSize)
             rest == readTracesNoPos(s, traceMsg.pos, n - 1)
         IN  IF ~havePos.ok THEN havePos
             ELSE IF ~traceMsg.ok THEN traceMsg
             ELSE IF ~rest.ok THEN rest
             ELSE Got(<<[HavePos |-> 0, Message |-> traceMsg.v]>> \o rest.v, rest.pos)

\* the trace entries of readDaemonError, in the order read
RECURSIVE readTraces(_, _, _)
readTraces(s, pos, n) ==
    IF n = 0 THEN Got(<<>>, pos)
    ELSE LET havePos == ReadUint64(s, pos)
             traceMsg == ReadString(s, havePos.pos, MaxStringSize)
             rest == readTraces(s, traceMsg.pos, n - 1)
         IN  IF ~havePos.ok THEN havePos
             ELSE IF ~traceMsg.ok THEN traceMsg
             ELSE IF ~rest.ok THEN rest
             ELSE Got(<<[HavePos |-> havePos.v, Message |-> traceMsg.v]>> \o rest.v,
                      rest.pos)

\* readDaemonError on the stream: type, level, name, message, havePos (read
\* and dropped), nrTraces, the traces
DaemonErrorAt(s, pos) ==
    LET errType == ReadString(s, pos, MaxStringSize)
        level == ReadUint64(s, errType.pos)
        name == ReadString(s, level.pos, MaxStringSize)
        message == ReadString(s, name.pos, MaxStringSize)
        havePos == ReadUint64(s, message.pos)
        nrTraces == ReadUint64(s, havePos.pos)
        traces == readTraces(s, nrTraces.pos, nrTraces.v)
    IN  IF ~errType.ok THEN errType
        ELSE IF ~level.ok THEN level
        ELSE IF ~name.ok THEN name
        ELSE IF ~message.ok THEN message
        ELSE IF ~havePos.ok THEN havePos
        ELSE IF ~nrTraces.ok THEN nrTraces
        ELSE IF ~traces.ok THEN traces
        ELSE Got([Type |-> errType.v, Level |-> level.v, Name |-> name.v,
                  Message |-> message.v, Traces |-> traces.v], traces.pos)

\* a LogMessage; a nil pointer is the empty sequence, a pointer to x is <<x>>
LogMessage(type, text, act, id, result) ==
    [Type |-> type, Text |-> text, Activity |-> act, ActivityID |-> id, Result |-> result]

ProtocolError(op) == [kind |-> "ProtocolError", Op |-> op]

\* logs <- msg when a channel is configured (its capacity is not reached here)
Deliver(msg) ==
    logs' = IF logs.nil THEN logs ELSE [logs EXCEPT !.msgs = Append(@, msg)]

\* the tag word of this turn of the loop
msgType == ReadUint64(stream, spos)

StderrTurn(type) ==
    /\ perr.kind = "running"
    /\ msgType.ok
    /\ msgType.v = type
    /\ UNCHANGED <<stream, sent, clientVars, closedAt, hsVars, framedVars, copierVars, laterVars>>

\* the turn went on to the next one, or failed at position pos
StderrFailed(pos, op) ==
    /\ perr' = ProtocolError(op)
    /\ spos' = pos
    /\ UNCHANGED logs

\* wire.ReadUint64 of the tag fails
StderrEOF ==
    /\ perr.kind = "running"
    /\ ~msgType.ok
    /\ StderrFailed(msgType.pos, "read stderr message type")
    /\ UNCHANGED <<stream, sent, clientVars, closedAt, hsVars, framedVars, copierVars, laterVars>>

\* case LogLast: return nil
StderrLast ==
    /\ StderrTurn(LogLast)
    /\ perr' = [kind |-> "nil"]
    /\ spos' = msgType.pos
    /\ UNCHANGED logs

\* case LogError: return readDaemonError(r)
StderrError ==
    LET e == DaemonErrorAt(stream, msgType.pos) IN
    /\ StderrTurn(LogError)
    /\ perr' = IF e.ok THEN [kind |-> "DaemonError", err |-> e.v]
               ELSE ProtocolError("read error")
    /\ spos' = e.pos
    /\ UNCHANGED logs

\* case LogNext
StderrNext ==
    LET text == ReadString(stream, msgType.pos, MaxStringSize) IN
    /\ StderrTurn(LogNext)
    /\ IF text.ok
       THEN /\ Deliver(LogMessage(LogNext, text.v, <<>>, 0, <<>>))
            /\ spos' = text.pos
            /\ UNCHANGED perr
       ELSE StderrFailed(text.pos, "read LogNext text")

\* case LogStartActivity
StderrStartActivity ==
    LET act == readActivity(stream, msgType.pos) IN
    /\ StderrTurn(LogStartActivity)
    /\ IF act.ok
       THEN /\ Deliver(LogMessage(LogStartActivity, <<>>, <<act.v>>, 0, <<>>))
            /\ spos' = act.pos
            /\ UNCHANGED perr
       ELSE StderrFailed(act.pos, "read activity")

\* case LogStopActivity
StderrStopActivity ==
    LET id == ReadUint64(stream, msgType.pos) IN
    /\ StderrTurn(LogStopActivity)
    /\ IF id.ok
       THEN /\ Deliver(LogMessage(LogStopActivity, <<>>, <<>>, id.v, <<>>))
            /\ spos' = id.pos
            /\ UNCHANGED perr
       ELSE StderrFailed(id.pos, "read LogStopActivity id")

\* case LogResult
StderrResult ==
    LET result == readActivityResult(stream, msgType.pos) IN
    /\ StderrTurn(LogResult)
    /\ IF result.ok
       THEN /\ Deliver(LogMessage(LogResult, <<>>, <<>>, 0, <<result.v>>))
            /\ spos' = result.pos
            /\ UNCHANGED perr
       ELSE StderrFailed(result.pos, "read result")

\* a Read/Write case that leaves the count word unread
StderrReadWriteNoCount ==
    /\ \E type \in {LogRead, LogWrite} : StderrTurn(type)
    /\ spos' = msgType.pos
    /\ UNCHANGED <<perr, logs>>

\* case LogRead, LogWrite: read the count and discard
StderrReadWrite ==
    LET count == ReadUint64(stream, msgType.pos) IN
    /\ \E type \in {LogRead, LogWrite} : StderrTurn(type)
    /\ IF count.ok
       THEN /\ spos' = count.pos
            /\ UNCHANGED <<perr, logs>>
       ELSE StderrFailed(count.pos, "read LogRead/LogWrite count")

\* a default case that skips the unknown tag and goes on
StderrUnknownSkip ==
    /\ perr.kind = "running"
    /\ msgType.ok
    /\ msgType.v \notin LogTypes
    /\ spos' = msgType.pos
    /\ UNCHANGED <<perr, logs, stream, sent, clientVars, closedAt, hsVars, framedVars, copierVars, laterVars>>

\* default: unknown log message type
StderrUnknown ==
    /\ perr.kind = "running"
    /\ msgType.ok
    /\ msgType.v \notin LogTypes
    /\ StderrFailed(msgType.pos, "process stderr")
    /\ UNCHANGED <<stream, sent, clientVars, closedAt, hsVars, framedVars, copierVars, laterVars>>

\* ---- the streams ProcessStderr is run on
\* messages before the terminal one in a stream
MaxMsgs == 2

\* strings of 0, 1 and 9 bytes (none, part of a word, more than a word)
Str0 == <<>>
Str1 == <<97>>
Str9 == <<98, 117, 105, 108, 100, 105, 110, 103, 33>>

IntField(v) == [Int |-> v, String |-> <<>>, IsInt |-> TRUE]
StringField(s) == [Int |-> 0, String |-> s, IsInt |-> FALSE]

\* messages a daemon sends before the terminal one
LogMsgs ==
    {[t |-> LogNext, text |-> Str1],
     [t |-> LogNext, text |-> Str9],
     [t |-> LogStartActivity, id |-> 42, level |-> 3, type |-> 105, text |-> Str0,
      fields |-> <<>>, parent |-> 0],
     [t |-> LogStartActivity, id |-> 99, level |-> 3, type |-> 102, text |-> Str9,
      fields |-> <<StringField(Str1), IntField(1048576)>>, parent |-> 42],
     [t |-> LogStopActivity, id |-> 42],
     [t |-> LogResult, id |-> 7, type |-> 101, fields |-> <<StringField(Str9)>>],
     [t |-> LogRead, n |-> 4096],
     [t |-> LogWrite, n |-> 8192]}

\* Error messages, without and with traces
ErrorMsgs ==
    {[t |-> LogError, type |-> Str1, level |-> 0, name |-> Str9, message |-> Str1,
      havePos |-> 0, traces |-> <<>>],
     [t |-> LogError, type |-> Str9, level |-> 1, name |-> Str0, message |-> Str9,
      havePos |-> 1,
      traces |-> <<[HavePos |-> 1, Message |-> Str9], [HavePos |-> 0, Message |-> Str1]>>]}

\* tag words that are no stderr message type
UnknownTags == {0, LogWrite + 1}

\* what ends the stderr stream of a reply: Last, an Error, or an unknown tag
Terminals == {[t |-> LogLast]} \cup ErrorMsgs \cup {[t |-> u] : u \in UnknownTags}

\* what follows on the connection: nothing yet, or words of the response
Tails == {<<>>, writeTestUint64(1), writeTestUint64(LogNext) \o writeTestString(Str1)}

RECURSIVE WriteFields(_)
WriteFields(fs) ==
    IF fs = <<>> THEN <<>>
    ELSE (IF Head(fs).IsInt
          THEN writeTestUint64(0) \o writeTestUint64(Head(fs).Int)
          ELSE writeTestUint64(1) \o writeTestString(Head(fs).String))
         \o WriteFields(Tail(fs))

RECURSIVE WriteTraces(_)
WriteTraces(ts) ==
    IF ts = <<>> THEN <<>>
    ELSE writeTestUint64(Head(ts).HavePos) \o writeTestString(Head(ts).Message)
         \o WriteTraces(Tail(ts))

\* the words of one message, as the daemon (the tests) writes them
WriteMsg(m) ==
    writeTestUint64(m.t) \o
    (CASE m.t = LogNext -> writeTestString(m.text)
       [] m.t = LogStartActivity ->
             writeTestUint64(m.id) \o writeTestUint64(m.level) \o writeTestUint64(m.type)
             \o writeTestString(m.text) \o writeTestUint64(Len(m.fields))
             \o WriteFields(m.fields) \o writeTestUint64(m.parent)
       [] m.t = LogStopActivity -> writeTestUint64(m.id)
       [] m.t = LogResult ->
             writeTestUint64(m.id) \o writeTestUint64(m.type)
             \o writeTestUint64(Len(m.fields)) \o WriteFields(m.fields)
       [] m.t \in {LogRead, LogWrite} -> writeTestUint64(m.n)
       [] m.t = LogError ->
             writeTestString(m.type) \o writeTestUint64(m.level) \o writeTestString(m.name)
             \o writeTestString(m.message) \o writeTestUint64(m.havePos)
             \o writeTestUint64(Len(m.traces)) \o WriteTraces(m.traces)
       [] OTHER -> <<>>)

RECURSIVE WriteMsgs(_)
WriteMsgs(ms) == IF ms = <<>> THEN <<>> ELSE WriteMsg(Head(ms)) \o WriteMsgs(Tail(ms))

\* sequences of at most n elements of S
SeqsUpTo(S, n) == UNION {[1..i -> S] : i \in 0..n}

\* ProcessStderr is called on a stream: messages, a terminal message and what
\* follows it; or the same cut short by a word
StderrInit ==
    /\ ClientInit
    /\ consumer = "nil"
    /\ closedAt = 0
    /\ HandshakeOff
    /\ FramedOff
    /\ CopierOff
    /\ LaterOff
    /\ \E ms \in SeqsUpTo(LogMsgs, MaxMsgs), last \in Terminals, tail \in Tails,
          cut \in BOOLEAN :
          LET whole == WriteMsgs(ms) \o WriteMsg(last) \o tail IN
          /\ cut => tail = <<>>
          /\ sent = [msgs |-> ms, last |-> last, tail |-> tail, cut |-> cut]
          /\ stream = IF cut THEN SubSeq(whole, 1, Len(whole) - 1) ELSE whole
    /\ spos = 0
    /\ logs \in {[nil |-> TRUE, msgs |-> <<>>], [nil |-> FALSE, msgs |-> <<>>]}
    /\ perr = [kind |-> "running"]

StderrStep ==
    \/ StderrEOF \/ StderrLast \/ StderrError \/ StderrNext
    \/ StderrStartActivity \/ StderrStopActivity \/ StderrResult
    \/ StderrReadWrite \/ StderrUnknown

SpecStderr == StderrInit /\ [][StderrStep]_vars

\* ------------------------------------------------------------------ handshake
\* handshake constants (types.go)
ClientMagic == 1852405859
ServerMagic == 1685612911
ProtocolVersion == 293

\* what a server may advertise
ServerMagics == {ServerMagic, ClientMagic, ServerMagic + 1, 0}
ServerVersions == {0, ProtocolVersion - 1, ProtocolVersion, ProtocolVersion + 1, 65535}
NixVersions == {Str0, Str9}
TrustLevels == {0, 1, 2}

\* what a server sends once the handshake is through: nothing (the server of
\* TestHandshake), or the startWork/stopWork cycle of a daemon, which is the
\* Last tag
PostHandshakes == {<<>>, writeTestUint64(LogLast)}

\* the words a server sends: magic, version, Nix version string, trust level
\* and the post-handshake stderr
ServerScript(magic, version, nix, trust, post) ==
    writeTestUint64(magic) \o writeTestUint64(version)
        \o writeTestString(nix) \o writeTestUint64(trust) \o post

\* newClient is called on a fresh connection to a server
HandshakeInit ==
    /\ ClientInit
    /\ StderrOff
    /\ closedAt = 0
    /\ FramedOff
    /\ CopierOff
    /\ LaterOff
    /\ hsPc = "writeMagic"
    /\ hsLoc = [negotiated |-> 0, daemonVersion |-> <<>>]
    /\ hsW = <<>>
    /\ hsOut = <<>>
    /\ hsIn = <<>>
    /\ hsRd = 0
    /\ hsRet = [kind |-> "running"]
    /\ \E magic \in ServerMagics, version \in ServerVersions,
          nix \in NixVersions, trust \in TrustLevels, post \in PostHandshakes :
          srv = [pc |-> "on", magic |-> magic, version |-> version,
                 post |-> post,
                 script |-> ServerScript(magic, version, nix, trust, post),
                 sent |-> 0, rd |-> 0, open |-> TRUE]

HsOthers == <<clientVars, stderrVars, closedAt, framedVars, copierVars, laterVars>>

\* the server writes its next word
SrvSend ==
    /\ srv.pc = "on"
    /\ srv.open
    /\ srv.sent < Len(srv.script)
    /\ hsIn' = Append(hsIn, srv.script[srv.sent + 1])
    /\ srv' = [srv EXCEPT !.sent = @ + 1]
    /\ UNCHANGED <<hsPc, hsLoc, hsW, hsOut, hsRd, hsRet, HsOthers>>

\* the server reads a word the client wrote
SrvRecv ==
    /\ srv.pc = "on"
    /\ srv.open
    /\ srv.rd < Len(hsOut)
    /\ srv' = [srv EXCEPT !.rd = @ + 1]
    /\ UNCHANGED <<hsPc, hsLoc, hsW, hsOut, hsIn, hsRd, hsRet, HsOthers>>

\* the server closes the connection
SrvHangUp ==
    /\ srv.pc = "on"
    /\ srv.open
    /\ srv' = [srv EXCEPT !.open = FALSE]
    /\ UNCHANGED <<hsPc, hsLoc, hsW, hsOut, hsIn, hsRd, hsRet, HsOthers>>

\* nothing more will arrive than what is in hsIn
HsInputFinal == ~srv.open \/ srv.sent = Len(srv.script)

\* handshakeWithBufIO returns an error: newClient returns no Client
HsFail(op) ==
    /\ hsRet' = ProtocolError(op)
    /\ hsPc' = "done"

\* wire.WriteUint64 / wire.WriteBool into the bufio.Writer
HsWrite(at, v, next) ==
    /\ hsPc = at
    /\ hsW' = hsW \o writeTestUint64(v)
    /\ hsPc' = next
    /\ UNCHANGED <<hsLoc, hsOut, hsIn, hsRd, hsRet, srv, HsOthers>>

\* a Flush that leaves the words in the buffer
HsFlushNone(at, op, next) ==
    /\ hsPc = at
    /\ \E ok \in (IF srv.open THEN {TRUE} ELSE BOOLEAN) :
          IF ok
          THEN /\ hsPc' = next
               /\ UNCHANGED <<hsRet, hsOut, hsW>>
          ELSE /\ HsFail(op)
               /\ UNCHANGED <<hsOut, hsW>>
    /\ UNCHANGED <<hsLoc, hsIn, hsRd, srv, HsOthers>>

\* w.Flush: the buffered words go to the connection, or the write fails on a
\* connection the peer has closed
HsFlush(at, op, next) ==
    /\ hsPc = at
    /\ \E ok \in (IF srv.open THEN {TRUE} ELSE BOOLEAN) :
          IF ok
          THEN /\ hsOut' = hsOut \o hsW
               /\ hsW' = <<>>
               /\ hsPc' = next
               /\ UNCHANGED hsRet
          ELSE /\ HsFail(op)
               /\ UNCHANGED <<hsOut, hsW>>
    /\ UNCHANGED <<hsLoc, hsIn, hsRd, srv, HsOthers>>

\* 1. Client sends ClientMagic, flush
HsWriteMagic == HsWrite("writeMagic", ClientMagic, "flushMagic")
HsFlushMagic == HsFlush("flushMagic", "handshake flush client magic", "readMagic")

\* 2. Server responds with ServerMagic, validated
HsReadMagicNoCheck ==
    /\ hsPc = "readMagic"
    /\ LET serverMagic == ReadUint64(hsIn, hsRd)
       IN  /\ serverMagic.ok \/ HsInputFinal
           /\ hsRd' = serverMagic.pos
           /\ IF ~serverMagic.ok
              THEN HsFail("handshake read server magic")
              ELSE hsPc' = "readVersion" /\ UNCHANGED hsRet
    /\ UNCHANGED <<hsLoc, hsW, hsOut, hsIn, srv, HsOthers>>

HsReadMagic ==
    /\ hsPc = "readMagic"
    /\ LET serverMagic == ReadUint64(hsIn, hsRd)
       IN  /\ serverMagic.ok \/ HsInputFinal
           /\ hsRd' = serverMagic.pos
           /\ IF ~serverMagic.ok
              THEN HsFail("handshake read server magic")
              ELSE IF serverMagic.v # ServerMagic
              THEN HsFail("handshake validate server magic")
              ELSE hsPc' = "readVersion" /\ UNCHANGED hsRet
    /\ UNCHANGED <<hsLoc, hsW, hsOut, hsIn, srv, HsOthers>>

\* 4. negotiated version = min(serverVersion, ProtocolVersion)
NegotiatedNoMin(serverVersion) == serverVersion

Negotiated(serverVersion) ==
    IF ProtocolVersion < serverVersion THEN ProtocolVersion ELSE serverVersion

\* 3, 4. Server sends its version; the negotiated version must be at least
\* ProtocolVersion
HsReadVersion ==
    /\ hsPc = "readVersion"
    /\ LET serverVersion == ReadUint64(hsIn, hsRd)
           negotiated == Negotiated(serverVersion.v)
       IN  /\ serverVersion.ok \/ HsInputFinal
           /\ hsRd' = serverVersion.pos
           /\ IF ~serverVersion.ok
              THEN HsFail("handshake read server version") /\ UNCHANGED hsLoc
              ELSE IF negotiated < ProtocolVersion
              THEN HsFail("handshake version negotiation") /\ UNCHANGED hsLoc
              ELSE /\ hsLoc' = [hsLoc EXCEPT !.negotiated = negotiated]
                   /\ hsPc' = "writeVersion"
                   /\ UNCHANGED hsRet
    /\ UNCHANGED <<hsW, hsOut, hsIn, srv, HsOthers>>

\* 5, 6, 7. Client sends the negotiated version and two false flags, flush
HsWriteVersion == HsWrite("writeVersion", hsLoc.negotiated, "writeAffinity")
HsWriteAffinity == HsWrite("writeAffinity", 0, "writeReserve")
HsWriteReserve == HsWrite("writeReserve", 0, "flushFlags")
HsFlushFlags == HsFlush("flushFlags", "handshake flush client flags", "readDaemonVersion")

\* 8. Server sends its Nix version string
HsReadDaemonVersion ==
    /\ hsPc = "readDaemonVersion"
    /\ LET daemonVersion == ReadString(hsIn, hsRd, MaxStringSize)
       IN  /\ daemonVersion.ok \/ HsInputFinal
           /\ hsRd' = daemonVersion.pos
           /\ IF ~daemonVersion.ok
              THEN HsFail("handshake read daemon version") /\ UNCHANGED hsLoc
              ELSE /\ hsLoc' = [hsLoc EXCEPT !.daemonVersion = daemonVersion.v]
                   /\ hsPc' = "readTrust"
                   /\ UNCHANGED hsRet
    /\ UNCHANGED <<hsW, hsOut, hsIn, srv, HsOthers>>

\* 9. Server sends the trust level; newClient returns the Client
HsReadTrust ==
    /\ hsPc = "readTrust"
    /\ LET trustRaw == ReadUint64(hsIn, hsRd)
       IN  /\ trustRaw.ok \/ HsInputFinal
           /\ hsRd' = trustRaw.pos
           /\ hsPc' = "done"
           /\ IF ~trustRaw.ok
              THEN hsRet' = ProtocolError("handshake read trust level")
              ELSE hsRet' = [kind |-> "Client",
                             Version |-> hsLoc.negotiated,
                             DaemonNixVersion |-> hsLoc.daemonVersion,
                             Trust |-> trustRaw.v]
    /\ UNCHANGED <<hsLoc, hsW, hsOut, hsIn, srv, HsOthers>>

HandshakeStep ==
    \/ SrvSend \/ SrvRecv \/ SrvHangUp
    \/ HsWriteMagic \/ HsFlushMagic \/ HsReadMagic \/ HsReadVersion
    \/ HsWriteVersion \/ HsWriteAffinity \/ HsWriteReserve \/ HsFlushFlags
    \/ HsReadDaemonVersion \/ HsReadTrust

SpecHandshake == HandshakeInit /\ [][HandshakeStep]_vars

\* ------------------------------------------------------------------ framed transport
\* The framed stream is modelled byte by byte.
\* cap(fw.buf): defaultFrameSize, scaled down
FrameSize == 8
\* calls made on the FramedWriter
MaxCalls == 4
\* writes the underlying writer accepts before it breaks, when it breaks
MaxAccepted == 4
\* len(p) of the Write calls
WriteLens == {0, 1, FrameSize - 1, FrameSize + 1}
\* len(p) of the Read calls
ReadLens == {0, 1, 3, 2 * FrameSize}

Zeros(n) == [i \in 1..n |-> 0]
Min(a, b) == IF a < b THEN a ELSE b

\* One Write call on the underlying writer w = [out, left, err]: the bytes are
\* accepted whole, or the writer is broken and stays so.  err is the error of
\* the enclosing call: the calls after a failed one are not made.
Accept(w, bytes) ==
    IF w.err THEN w
    ELSE IF w.left.limited /\ w.left.n = 0 THEN [w EXCEPT !.err = TRUE]
    ELSE [w EXCEPT !.out = @ \o bytes,
                   !.left = IF @.limited THEN [@ EXCEPT !.n = @ - 1] ELSE @]

\* writePadding, and a writer that pads aligned frames as well
writePaddingAlways(w, contentLen) == Accept(w, Zeros(8 - (contentLen % 8)))

writePadding(w, contentLen) ==
    LET n == paddingLen(contentLen)
    IN  IF n = 0 THEN w ELSE Accept(w, Zeros(n))

\* FramedWriter.flush: header, data, padding; the buffer is reset on success
flush(w, buf) ==
    LET n == Len(buf)
        done == writePadding(Accept(Accept(w, PutUint64(n)), buf), n)
    IN  IF n = 0 THEN [w |-> w, buf |-> buf]
        ELSE [w |-> done, buf |-> IF done.err THEN buf ELSE <<>>]

\* the loop of FramedWriter.Write on st = [w, buf, p, written]
RECURSIVE WriteLoop(_)
WriteLoop(st) ==
    IF Len(st.p) = 0 THEN st
    ELSE LET space == Min(FrameSize - Len(st.buf), Len(st.p))
             buf == st.buf \o SubSeq(st.p, 1, space)
             p == SubSeq(st.p, space + 1, Len(st.p))
             written == st.written + space
             f == flush(st.w, buf)
         IN  IF Len(buf) = FrameSize
             THEN IF f.w.err
                  THEN [w |-> f.w, buf |-> f.buf, p |-> p, written |-> written]
                  ELSE WriteLoop([w |-> f.w, buf |-> f.buf, p |-> p, written |-> written])
             ELSE WriteLoop([w |-> st.w, buf |-> buf, p |-> p, written |-> written])

\* the underlying writer at the start of a call
Writer == [out |-> fwOut, left |-> fwLeft, err |-> FALSE]

\* bytes offered to Write so far; the bytes of the next Write continue them
Offered == LET RECURSIVE Sum(_)
               Sum(i) == IF i = 0 THEN 0 ELSE fwLog[i].n + Sum(i - 1)
           IN  Sum(Len(fwLog))
NextP(n) == [i \in 1..n |-> Offered + i]

Logged(op, n, written, err, emitted) ==
    fwLog' = Append(fwLog, [op |-> op, n |-> n, written |-> written, err |-> err,
                            emitted |-> emitted, closed |-> fw.closed])

\* FramedWriter.Write without the check of closed
FwWriteUnchecked(n) ==
    /\ Len(fwLog) < MaxCalls
    /\ LET st == WriteLoop([w |-> Writer, buf |-> fw.buf, p |-> NextP(n), written |-> 0])
       IN  /\ fw' = [fw EXCEPT !.buf = st.buf]
           /\ fwOut' = st.w.out
           /\ fwLeft' = st.w.left
           /\ Logged("Write", n, st.written, st.w.err, Len(st.w.out) - Len(fwOut))
    /\ UNCHANGED <<fr, frPos, frGot, frRet, clientVars, stderrVars, closedAt, hsVars, copierVars, laterVars>>

\* FramedWriter.Write(p), len(p) = n
FwWrite(n) ==
    /\ Len(fwLog) < MaxCalls
    /\ IF fw.closed
       THEN /\ Logged("Write", n, 0, TRUE, 0)
            /\ UNCHANGED <<fw, fwOut, fwLeft>>
       ELSE LET st == WriteLoop([w |-> Writer, buf |-> fw.buf, p |-> NextP(n),
                                 written |-> 0])
            IN  /\ fw' = [fw EXCEPT !.buf = st.buf]
                /\ fwOut' = st.w.out
                /\ fwLeft' = st.w.left
                /\ Logged("Write", n, st.written, st.w.err, Len(st.w.out) - Len(fwOut))
    /\ UNCHANGED <<fr, frPos, frGot, frRet, clientVars, stderrVars, closedAt, hsVars, copierVars, laterVars>>

\* FramedWriter.Close
FwClose ==
    /\ Len(fwLog) < MaxCalls
    /\ IF fw.closed
       THEN /\ Logged("Close", 0, 0, FALSE, 0)
            /\ UNCHANGED <<fw, fwOut, fwLeft>>
       ELSE LET f == flush(Writer, fw.buf)
                w == Accept(f.w, PutUint64(0))
            IN  /\ fw' = [buf |-> f.buf, closed |-> TRUE]
                /\ fwOut' = w.out
                /\ fwLeft' = w.left
                /\ Logged("Close", 0, 0, w.err, Len(w.out) - Len(fwOut))
    /\ UNCHANGED <<fr, frPos, frGot, frRet, clientVars, stderrVars, closedAt, hsVars, copierVars, laterVars>>

\* The result of a step of the reader at byte pos: "nil" or the error.
Step(ret, f, pos) == [ret |-> ret, fr |-> f, pos |-> pos]

\* skipPadding: io.ReadFull of the padding, which must be zero bytes
skipPadding(s, pos, contentLen) ==
    LET n == paddingLen(contentLen)
    IN  IF n = 0 THEN [ret |-> "nil", pos |-> pos]
        ELSE IF pos + n > Len(s) THEN [ret |-> "truncated", pos |-> Len(s)]
        ELSE IF \E i \in 1..n : s[pos + i] # 0 THEN [ret |-> "padding", pos |-> pos + n]
        ELSE [ret |-> "nil", pos |-> pos + n]

\* wire.ReadUint64 on bytes: io.ReadFull of eight bytes
ReadUint64Bytes(s, pos) ==
    IF pos + 8 > Len(s) THEN Fail(Len(s))
    ELSE Got(Uint64(SubSeq(s, pos + 1, pos + 8)), pos + 8)

\* a nextFrame that reads the header where the data of the last frame ended
nextFrameNoSkip(f, s, pos) ==
    LET frameLen == ReadUint64Bytes(s, pos)
    IN  IF ~frameLen.ok THEN Step("truncated", f, frameLen.pos)
        ELSE IF frameLen.v = 0
             THEN Step("nil", [f EXCEPT !.done = TRUE, !.prevFrameLen = 0], frameLen.pos)
        ELSE Step("nil", [f EXCEPT !.remaining = frameLen.v, !.prevFrameLen = frameLen.v,
                                   !.needHeader = FALSE], frameLen.pos)

\* FramedReader.nextFrame
nextFrame(f, s, pos) ==
    LET pad == IF f.prevFrameLen > 0 THEN skipPadding(s, pos, f.prevFrameLen)
               ELSE [ret |-> "nil", pos |-> pos]
        frameLen == ReadUint64Bytes(s, pad.pos)
    IN  IF pad.ret # "nil" THEN Step(pad.ret, f, pad.pos)
        ELSE IF ~frameLen.ok THEN Step("truncated", f, frameLen.pos)
        ELSE IF frameLen.v = 0
             THEN Step("nil", [f EXCEPT !.done = TRUE, !.prevFrameLen = 0], frameLen.pos)
        ELSE Step("nil", [f EXCEPT !.remaining = frameLen.v, !.prevFrameLen = frameLen.v,
                                   !.needHeader = FALSE], frameLen.pos)

\* what fr.r.Read(p[:toRead]) may return at pos: the byte count and the error
UnderlyingRead(s, pos, toRead) ==
    IF toRead = 0 THEN {[n |-> 0, ret |-> "nil"]}
    ELSE IF pos = Len(s) THEN {[n |-> 0, ret |-> "EOF"]}
    ELSE {[n |-> k, ret |-> "nil"] : k \in 1..Min(toRead, Len(s) - pos)}

\* FramedReader.Read(p), len(p) = n, on the bytes of a closed writer
FrRead(n) ==
    /\ fw.closed
    /\ IF fr.done
       THEN frRet' = "EOF" /\ UNCHANGED <<fr, frPos, frGot>>
       ELSE LET nf == IF fr.needHeader THEN nextFrame(fr, fwOut, frPos)
                      ELSE Step("nil", fr, frPos)
                toRead == Min(n, nf.fr.remaining)
            IN  IF nf.ret # "nil"
                THEN frRet' = nf.ret /\ fr' = nf.fr /\ frPos' = nf.pos /\ UNCHANGED frGot
                ELSE IF nf.fr.done
                THEN frRet' = "EOF" /\ fr' = nf.fr /\ frPos' = nf.pos /\ UNCHANGED frGot
                ELSE \E rd \in UnderlyingRead(fwOut, nf.pos, toRead) :
                        /\ frGot' = frGot \o SubSeq(fwOut, nf.pos + 1, nf.pos + rd.n)
                        /\ frPos' = nf.pos + rd.n
                        /\ fr' = [nf.fr EXCEPT !.remaining = @ - rd.n,
                                               !.needHeader = (nf.fr.remaining - rd.n = 0)]
                        /\ frRet' = rd.ret
    /\ UNCHANGED <<fw, fwOut, fwLeft, fwLog, clientVars, stderrVars, closedAt, hsVars, copierVars, laterVars>>

\* a new FramedWriter over a writer that never breaks or breaks after some
\* writes, and a new FramedReader
FramedInit ==
    /\ ClientInit
    /\ StderrOff
    /\ closedAt = 0
    /\ HandshakeOff
    /\ CopierOff
    /\ LaterOff
    /\ fw = [buf |-> <<>>, closed |-> FALSE]
    /\ fwOut = <<>>
    /\ fwLeft \in {[limited |-> FALSE, n |-> 0]}
                    \cup {[limited |-> TRUE, n |-> k] : k \in 0..MaxAccepted}
    /\ fwLog = <<>>
    /\ fr = [remaining |-> 0, prevFrameLen |-> 0, needHeader |-> TRUE, done |-> FALSE]
    /\ frPos = 0
    /\ frGot = <<>>
    /\ frRet = "none"

FramedStep ==
    \/ \E n \in WriteLens : FwWrite(n)
    \/ FwClose
    \/ \E n \in ReadLens : FrRead(n)

SpecFramed == FramedInit /\ [][FramedStep]_vars

\* ------------------------------------------------------------------ NAR copier
\* The NAR stream is modelled byte by byte.
\* the tokens of the NAR grammar, as bytes
TokMagic == <<110, 105, 120, 45, 97, 114, 99, 104, 105, 118, 101, 45, 49>>
TokOpen == <<40>>
TokClose == <<41>>
TokType == <<116, 121, 112, 101>>
TokRegular == <<114, 101, 103, 117, 108, 97, 114>>
TokDirectory == <<100, 105, 114, 101, 99, 116, 111, 114, 121>>
TokSymlink == <<115, 121, 109, 108, 105, 110, 107>>
TokExecutable == <<101, 120, 101, 99, 117, 116, 97, 98, 108, 101>>
TokContents == <<99, 111, 110, 116, 101, 110, 116, 115>>
TokEntry == <<101, 110, 116, 114, 121>>
TokName == <<110, 97, 109, 101>>
TokNode == <<110, 111, 100, 101>>
TokTarget == <<116, 97, 114, 103, 101, 116>>

\* the limit on the small tokens
maxTokenSize == 4096

\* errors: the io package's values, and the ones fmt.Errorf makes
IoError(name) == [kind |-> "io", msg |-> name, cause |-> <<>>]
Errorf(text) == [kind |-> "fmt", msg |-> text, cause |-> <<>>]
\* fmt.Errorf with %w
Wrapf(text, e) == [kind |-> "fmt", msg |-> text, cause |-> <<e>>]

\* The copy at a point: bytes of src consumed, bytes the pipe accepted, writes
\* the pipe still accepts, and the error that ended the copy (<<>> while none).
Failed(c) == c.err # <<>>
FailWith(c, e) == [c EXCEPT !.err = <<e>>]

\* io.ReadFull(src, buf), len(buf) = n
ReadFull(s, c, n) ==
    IF Failed(c) \/ n = 0 THEN c
    ELSE IF c.pos = Len(s) THEN FailWith(c, IoError("EOF"))
    ELSE IF c.pos + n > Len(s)
         THEN FailWith([c EXCEPT !.pos = Len(s)], IoError("ErrUnexpectedEOF"))
    ELSE [c EXCEPT !.pos = @ + n]

\* dst.Write(bytes) on the pipe: io.ErrClosedPipe once the reader is closed
DstWrite(c, bytes) ==
    IF Failed(c) THEN c
    ELSE IF c.left.limited /\ c.left.n = 0 THEN FailWith(c, IoError("ErrClosedPipe"))
    ELSE [c EXCEPT !.dst = @ \o bytes,
                   !.left = IF @.limited THEN [@ EXCEPT !.n = @ - 1] ELSE @]

\* the length word and its echo, common to copyWireToken and copyWireData
CopyLength(s, c) ==
    DstWrite(ReadFull(s, c, 8), SubSeq(s, c.pos + 1, c.pos + 8))

\* the padding and its echo
CopyPadding(s, c, length) ==
    LET pad == paddingLen(length)
    IN  IF pad > 0
        THEN DstWrite(ReadFull(s, c, pad), SubSeq(s, c.pos + 1, c.pos + pad))
        ELSE c

Max(a, b) == IF a > b THEN a ELSE b

\* data := make([]byte, length): held is the largest buffer the copier has
\* allocated for bytes of src (the io package's own copy buffer not counted)
Make(c, length) == [c EXCEPT !.held = Max(@, length)]

\* a copyWireToken without the bound on the declared length
copyWireTokenUnbounded(s, c) ==
    LET lenRead == CopyLength(s, c)
        length == Uint64(SubSeq(s, c.pos + 1, c.pos + 8))
        data == SubSeq(s, lenRead.pos + 1, Min(lenRead.pos + length, Len(s)))
        dataRead == DstWrite(ReadFull(s, Make(lenRead, length), length), data)
        padRead == CopyPadding(s, dataRead, length)
    IN  IF Failed(lenRead) THEN [c |-> lenRead, tok |-> <<>>]
        ELSE IF Failed(padRead) THEN [c |-> padRead, tok |-> <<>>]
        ELSE [c |-> padRead, tok |-> data]

\* copyWireToken: one wire string copied from src to dst; its value
copyWireToken(s, c) ==
    LET lenRead == CopyLength(s, c)
        length == Uint64(SubSeq(s, c.pos + 1, c.pos + 8))
        data == SubSeq(s, lenRead.pos + 1, lenRead.pos + length)
        dataRead == DstWrite(ReadFull(s, Make(lenRead, length), length), data)
        padRead == CopyPadding(s, dataRead, length)
    IN  IF Failed(lenRead) THEN [c |-> lenRead, tok |-> <<>>]
        ELSE IF length > maxTokenSize
             THEN [c |-> FailWith(lenRead, Errorf("NAR token too large")), tok |-> <<>>]
        ELSE IF Failed(padRead) THEN [c |-> padRead, tok |-> <<>>]
        ELSE [c |-> padRead, tok |-> data]

\* io.CopyN(dst, src, length): what src still has is written; io.EOF when it
\* has less than length
CopyN(s, c, length) ==
    LET avail == Min(length, Len(s) - c.pos)
        copied == IF avail = 0 THEN c
                  ELSE DstWrite([c EXCEPT !.pos = @ + avail],
                                SubSeq(s, c.pos + 1, c.pos + avail))
    IN  IF Failed(c) \/ Failed(copied) \/ avail = length THEN copied
        ELSE FailWith(copied, IoError("EOF"))

\* copyWireData: one wire bytes field, streamed
copyWireData(s, c) ==
    LET lenRead == CopyLength(s, c)
        length == Uint64(SubSeq(s, c.pos + 1, c.pos + 8))
    IN  IF Failed(lenRead) THEN lenRead
        ELSE CopyPadding(s, CopyN(s, lenRead, length), length)

\* a token that must be the expected one
ExpectToken(s, c, expected, text) ==
    LET t == copyWireToken(s, c)
    IN  IF Failed(t.c) THEN t.c
        ELSE IF t.tok # expected THEN FailWith(t.c, Errorf(text))
        ELSE t.c

\* copyRegular: optional "executable", optional "contents", then ")"
RECURSIVE copyRegular(_, _)
copyRegular(s, c) ==
    LET t == copyWireToken(s, c)
        placeholder == copyWireToken(s, t.c)
        contents == copyWireData(s, t.c)
    IN  IF Failed(t.c) THEN t.c
        ELSE IF t.tok = TokExecutable
             THEN IF Failed(placeholder.c) THEN placeholder.c
                  ELSE copyRegular(s, placeholder.c)
        ELSE IF t.tok = TokContents
             THEN IF Failed(contents) THEN contents ELSE copyRegular(s, contents)
        ELSE IF t.tok = TokClose THEN t.c
        ELSE FailWith(t.c, Errorf("unexpected token in regular file"))

\* a copySymlink that leaves the closing ")" unread
copySymlinkNoClose(s, c) ==
    LET target == ExpectToken(s, c, TokTarget, "expected 'target'")
        path == copyWireToken(s, target)
    IN  IF Failed(target) THEN target ELSE path.c

\* copySymlink: "target" <str> ")"
copySymlink(s, c) ==
    LET target == ExpectToken(s, c, TokTarget, "expected 'target'")
        path == copyWireToken(s, target)
    IN  IF Failed(target) THEN target
        ELSE IF Failed(path.c) THEN path.c
        ELSE ExpectToken(s, path.c, TokClose, "expected ')'")

RECURSIVE copyNode(_, _)
RECURSIVE copyDirectory(_, _)

\* copyDirectory: entries until ")"
copyDirectory(s, c) ==
    LET t == copyWireToken(s, c)
        open == ExpectToken(s, t.c, TokOpen, "expected \"(\"")
        nameTok == ExpectToken(s, open, TokName, "expected \"name\"")
        entryName == copyWireToken(s, nameTok)
        nodeTok == ExpectToken(s, entryName.c, TokNode, "expected 'node'")
        node == copyNode(s, nodeTok)
        close == ExpectToken(s, node, TokClose, "expected ')'")
    IN  IF Failed(t.c) THEN t.c
        ELSE IF t.tok = TokClose THEN t.c
        ELSE IF t.tok # TokEntry THEN FailWith(t.c, Errorf("expected 'entry' or ')'"))
        ELSE IF Failed(open) THEN open
        ELSE IF Failed(nameTok) THEN nameTok
        ELSE IF Failed(entryName.c) THEN entryName.c
        ELSE IF Failed(nodeTok) THEN nodeTok
        ELSE IF Failed(node) THEN node
        ELSE IF Failed(close) THEN close
        ELSE copyDirectory(s, close)

\* copyNode: "(" "type" and the body of the type
copyNode(s, c) ==
    LET open == ExpectToken(s, c, TokOpen, "expected '('")
        typeTok == ExpectToken(s, open, TokType, "expected 'type'")
        typeVal == copyWireToken(s, typeTok)
    IN  IF Failed(open) THEN open
        ELSE IF Failed(typeTok) THEN typeTok
        ELSE IF Failed(typeVal.c) THEN typeVal.c
        ELSE IF typeVal.tok = TokRegular THEN copyRegular(s, typeVal.c)
        ELSE IF typeVal.tok = TokDirectory THEN copyDirectory(s, typeVal.c)
        ELSE IF typeVal.tok = TokSymlink THEN copySymlink(s, typeVal.c)
        ELSE FailWith(typeVal.c, Errorf("unknown NAR node type"))

\* copyNAR: the magic, then one node
copyNAR(s, c) ==
    LET magic == copyWireToken(s, c)
    IN  IF Failed(magic.c)
        THEN FailWith(magic.c, Wrapf("reading NAR magic", magic.c.err[1]))
        ELSE IF magic.tok # TokMagic
             THEN FailWith(magic.c, Errorf("expected nix-archive-1"))
        ELSE copyNode(s, magic.c)

\* wire.WriteString / wire.WriteBytes into a buffer
WireString(str) == PutUint64(Len(str)) \o str \o Zeros(paddingLen(Len(str)))

RECURSIVE WireStrings(_)
WireStrings(toks) ==
    IF toks = <<>> THEN <<>> ELSE WireString(Head(toks)) \o WireStrings(Tail(toks))

\* archives: one regular file, an empty directory, a symlink, a directory with
\* an executable file
OneByteRegularNar ==
    WireStrings(<<TokMagic, TokOpen, TokType, TokRegular, TokContents, <<1>>, TokClose>>)
EmptyDirectoryNar ==
    WireStrings(<<TokMagic, TokOpen, TokType, TokDirectory, TokClose>>)
SymlinkNar ==
    WireStrings(<<TokMagic, TokOpen, TokType, TokSymlink, TokTarget, Str9, TokClose>>)
ComplexNar ==
    WireStrings(<<TokMagic, TokOpen, TokType, TokDirectory,
                  TokEntry, TokOpen, TokName, Str1, TokNode,
                  TokOpen, TokType, TokRegular, TokExecutable, Str0,
                  TokContents, Str9, TokClose,
                  TokClose, TokClose>>)

\* streams that are no archive: a node type that does not exist, another
\* magic, a stray token in a regular file, a token declared too long
UnknownTypeNar == WireStrings(<<TokMagic, TokOpen, TokType, TokNode, TokClose>>)
WrongMagicNar == WireStrings(<<TokType, TokOpen, TokType, TokRegular, TokClose>>)
StrayTokenNar == WireStrings(<<TokMagic, TokOpen, TokType, TokRegular, TokEntry, TokClose>>)
LongTokenNar ==
    WireStrings(<<TokMagic, TokOpen, TokType, TokSymlink, TokTarget>>)
        \o PutUint64(maxTokenSize + 1) \o Zeros(8)

\* streams off the grammar in a regular file: two contents fields, and the
\* executable marker behind the contents
TwoContentsNar ==
    WireStrings(<<TokMagic, TokOpen, TokType, TokRegular, TokContents, <<1>>,
                  TokContents, <<2>>, TokClose>>)
ExecutableLastNar ==
    WireStrings(<<TokMagic, TokOpen, TokType, TokRegular, TokContents, <<1>>,
                  TokExecutable, Str0, TokClose>>)

\* a regular file whose contents are longer than a small token may be
BigContentsNar ==
    WireStrings(<<TokMagic, TokOpen, TokType, TokRegular, TokContents,
                  Zeros(maxTokenSize + 1), TokClose>>)
\* that archive whole, and cut in its contents
BigNars == {BigContentsNar, SubSeq(BigContentsNar, 1, Len(BigContentsNar) - 32)}

GoodNars == {OneByteRegularNar, EmptyDirectoryNar, SymlinkNar, ComplexNar}
BadNars == {UnknownTypeNar, WrongMagicNar, StrayTokenNar, LongTokenNar,
            TwoContentsNar, ExecutableLastNar}

\* what follows on the connection: the word of a later response, or more
\* tokens of the grammar
NarTails == {PutUint64(LogLast), WireStrings(<<TokClose, TokOpen>>)}

\* what the daemon sends: an archive or one of the others, then a tail
NarStreams == {n \o t : n \in GoodNars \cup BadNars, t \in NarTails}

\* writes of the copier the caller reads before it closes the reader, when it
\* closes it early
MaxPiped == 3
\* len(p) of the caller's Read calls
NarReadLen == 64

\* NarFromPath has started its goroutine on a connection that delivers a stream
\* or a part of it and then ends
CopierInit ==
    /\ ClientInit
    /\ StderrOff
    /\ closedAt = 0
    /\ HandshakeOff
    /\ FramedOff
    /\ LaterOff
    /\ \/ \E n \in NarStreams : \E cut \in 0..Len(n) : narSrc = SubSeq(n, 1, cut)
       \/ narSrc \in BigNars
    /\ narLeft \in {[limited |-> FALSE, n |-> 0]}
                     \cup {[limited |-> TRUE, n |-> k] : k \in 0..MaxPiped}
    /\ narRes = [kind |-> "running"]
    /\ narGot = <<>>
    /\ narRet = [kind |-> "none"]

CopierOthers == <<clientVars, stderrVars, closedAt, hsVars, framedVars, laterVars>>

\* err := copyNAR(pw, c.r) in the goroutine of NarFromPath
NarCopy ==
    /\ narRes.kind = "running"
    /\ narRes' = [kind |-> "returned",
                  c |-> copyNAR(narSrc, [pos |-> 0, dst |-> <<>>, held |-> 0, left |-> narLeft,
                                         err |-> <<>>])]
    /\ UNCHANGED <<narSrc, narLeft, narGot, narRet, CopierOthers>>

\* the caller closed the reader before the copy ended
ClosedEarly ==
    /\ Failed(narRes.c)
    /\ LET e == narRes.c.err[1]
       IN  IoError("ErrClosedPipe") \in {e} \cup {e.cause[i] : i \in 1..Len(e.cause)}

\* the caller's Read returns bytes the copier wrote
NarPipeRead ==
    /\ narRes.kind = "returned"
    /\ narRet.kind \in {"none", "nil"}
    /\ Len(narGot) < Len(narRes.c.dst)
    /\ narGot' = SubSeq(narRes.c.dst, 1, Min(Len(narGot) + NarReadLen, Len(narRes.c.dst)))
    /\ narRet' = [kind |-> "nil"]
    /\ UNCHANGED <<narSrc, narLeft, narRes, CopierOthers>>

\* pw.CloseWithError(err): the caller's Read returns err, or io.EOF when err
\* is nil
NarPipeEnd ==
    /\ narRes.kind = "returned"
    /\ narRet.kind \in {"none", "nil"}
    /\ Len(narGot) = Len(narRes.c.dst)
    /\ ~ClosedEarly
    /\ narRet' = IF Failed(narRes.c) THEN narRes.c.err[1] ELSE IoError("EOF")
    /\ UNCHANGED <<narSrc, narLeft, narRes, narGot, CopierOthers>>

\* the caller closes the reader it has not read to the end
NarPipeClose ==
    /\ narRes.kind = "returned"
    /\ narRet.kind \in {"none", "nil"}
    /\ Len(narGot) = Len(narRes.c.dst)
    /\ ClosedEarly
    /\ narRet' = [kind |-> "closed"]
    /\ UNCHANGED <<narSrc, narLeft, narRes, narGot, CopierOthers>>

CopierStep == NarCopy \/ NarPipeRead \/ NarPipeEnd \/ NarPipeClose

SpecNar == CopierInit /\ [][CopierStep]_vars

\* ------------------------------------------------------------------ codec
\* The codecs are modelled byte by byte.
\* the variables of the client and of the models above
earlierVars == <<clientVars, stderrVars, closedAt, hsVars, framedVars, copierVars>>
EarlierOff ==
    /\ ClientInit
    /\ StderrOff
    /\ closedAt = 0
    /\ HandshakeOff
    /\ FramedOff
    /\ CopierOff

\* the variables an action on ams leaves alone, and so on
AmsOthers == <<earlierVars, qpi, cdc, nrd, hdl, asn>>
QpiOthers == <<earlierVars, ams, cdc, nrd, hdl, asn>>
CdcOthers == <<earlierVars, ams, qpi, nrd, hdl, asn>>
NrdOthers == <<earlierVars, ams, qpi, cdc, hdl, asn>>
HdlOthers == <<earlierVars, ams, qpi, cdc, nrd, asn>>
AsnOthers == <<earlierVars, ams, qpi, cdc, nrd, hdl>>

\* A Go slice of strings: nil or not, and its elements.  len and range see
\* a nil slice as an empty one; reflect.DeepEqual does not.
NilSlice == [nil |-> TRUE, elems |-> <<>>]
SliceOf(ss) == [nil |-> FALSE, elems |-> ss]

\* wire.WriteBool
WriteBool(b) == PutUint64(IF b THEN 1 ELSE 0)

\* WriteStrings: count + entries
WriteStrings(ss) == PutUint64(Len(ss.elems)) \o WireStrings(ss.elems)

\* WritePathInfo with the two numbers in the other order
WritePathInfoSwapped(info) ==
    WireString(info.StorePath) \o WireString(info.Deriver) \o WireString(info.NarHash)
        \o WriteStrings(info.References)
        \o PutUint64(info.NarSize) \o PutUint64(info.RegistrationTime)
        \o WriteBool(info.Ultimate)
        \o WriteStrings(info.Sigs) \o WireString(info.CA)

\* WritePathInfo: the ValidPathInfo wire format
WritePathInfo(info) ==
    WireString(info.StorePath) \o WireString(info.Deriver) \o WireString(info.NarHash)
        \o WriteStrings(info.References)
        \o PutUint64(info.RegistrationTime) \o PutUint64(info.NarSize)
        \o WriteBool(info.Ultimate)
        \o WriteStrings(info.Sigs) \o WireString(info.CA)

\* path infos: of a path without references, and of one with references and
\* signatures
InfoOne ==
    [StorePath |-> Str9, Deriver |-> Str0, NarHash |-> Str1, References |-> NilSlice,
     RegistrationTime |-> 0, NarSize |-> 1, Ultimate |-> FALSE, Sigs |-> NilSlice,
     CA |-> Str0]
InfoTwo ==
    [StorePath |-> Str1, Deriver |-> Str9, NarHash |-> Str9,
     References |-> SliceOf(<<Str9, Str1>>),
     RegistrationTime |-> 1700000000, NarSize |-> 9, Ultimate |-> TRUE,
     Sigs |-> SliceOf(<<Str1>>),
     CA |-> Str9]

\* wire.ReadString on bytes: the length, the content, the zero padding
ReadStringBytes(s, pos, max) ==
    LET h == ReadUint64Bytes(s, pos)
        n == h.v
        end == h.pos + n + paddingLen(n)
    IN  IF ~h.ok THEN h
        ELSE IF n > max THEN Fail(h.pos)
        ELSE IF end > Len(s) THEN Fail(Len(s))
        ELSE IF \E i \in (h.pos + n + 1)..end : s[i] # 0 THEN Fail(end)
        ELSE Got(SubSeq(s, h.pos + 1, h.pos + n), end)

\* wire.ReadBool: a word, false when it is 0
ReadBool(s, pos) ==
    LET h == ReadUint64Bytes(s, pos)
    IN  IF ~h.ok THEN h ELSE Got(h.v # 0, h.pos)

\* the loop of ReadStrings: left entries are still to read into ss
RECURSIVE ReadEntries(_, _, _, _, _)
ReadEntries(s, pos, max, left, ss) ==
    IF left = 0 THEN Got(SliceOf(ss), pos)
    ELSE IF ~ReadStringBytes(s, pos, max).ok THEN Fail(ReadStringBytes(s, pos, max).pos)
    ELSE ReadEntries(s, ReadStringBytes(s, pos, max).pos, max, left - 1,
                     Append(ss, ReadStringBytes(s, pos, max).v))

\* ReadStrings: the count, then make([]string, count) filled entry by entry
ReadStrings(s, pos, max) ==
    LET count == ReadUint64Bytes(s, pos)
    IN  IF ~count.ok THEN count
        ELSE ReadEntries(s, count.pos, max, count.v, <<>>)

\* ReadPathInfo: the UnkeyedValidPathInfo wire format; what it read, or the
\* field it failed on
ReadPathInfo(s, pos, storePath) ==
    LET deriver == ReadStringBytes(s, pos, MaxStringSize)
        narHash == ReadStringBytes(s, deriver.pos, MaxStringSize)
        references == ReadStrings(s, narHash.pos, MaxStringSize)
        registrationTime == ReadUint64Bytes(s, references.pos)
        narSize == ReadUint64Bytes(s, registrationTime.pos)
        ultimate == ReadBool(s, narSize.pos)
        sigs == ReadStrings(s, ultimate.pos, MaxStringSize)
        ca == ReadStringBytes(s, sigs.pos, MaxStringSize)
        failed(at, field) == [ok |-> FALSE, v |-> <<>>, pos |-> at.pos,
                              err |-> ProtocolError("read path info " \o field)]
    IN  IF ~deriver.ok THEN failed(deriver, "deriver")
        ELSE IF ~narHash.ok THEN failed(narHash, "narHash")
        ELSE IF ~references.ok THEN failed(references, "references")
        ELSE IF ~registrationTime.ok THEN failed(registrationTime, "registrationTime")
        ELSE IF ~narSize.ok THEN failed(narSize, "narSize")
        ELSE IF ~ultimate.ok THEN failed(ultimate, "ultimate")
        ELSE IF ~sigs.ok THEN failed(sigs, "sigs")
        ELSE IF ~ca.ok THEN failed(ca, "contentAddress")
        ELSE [ok |-> TRUE,
              v |-> [StorePath |-> storePath, Deriver |-> deriver.v,
                     NarHash |-> narHash.v, References |-> references.v,
                     RegistrationTime |-> registrationTime.v, NarSize |-> narSize.v,
                     Ultimate |-> ultimate.v, Sigs |-> sigs.v, CA |-> ca.v],
              pos |-> ca.pos, err |-> [kind |-> "nil"]]

\* ------------------------------------------------------------------ AddMultipleToStore
OpAddMultipleToStore == 44

\* items of one call
MaxItems == 2
\* writes the connection accepts before it breaks, when it breaks
MaxAmsAccepted == 40

\* the items: a path info and the bytes its Source delivers
AmsItems ==
    {[Info |-> InfoOne, Source |-> <<7>>],
     [Info |-> InfoTwo, Source |-> Str9],
     [Info |-> InfoOne, Source |-> <<>>]}

\* AddMultipleToStore is called
AmsInit ==
    /\ EarlierOff
    /\ QpiOff /\ CdcOff /\ NrdOff /\ HdlOff /\ AsnOff
    /\ \E items \in SeqsUpTo(AmsItems, MaxItems), repair \in BOOLEAN,
          dontCheckSigs \in BOOLEAN,
          left \in {[limited |-> FALSE, n |-> 0]}
                     \cup {[limited |-> TRUE, n |-> k] : k \in 0..MaxAmsAccepted} :
          ams = [pc |-> "DoStreaming", items |-> items, repair |-> repair,
                 dontCheckSigs |-> dontCheckSigs, i |-> 0,
                 w |-> [out |-> <<>>, left |-> left, err |-> FALSE],
                 flushed |-> 0,
                 fw |-> [buf |-> <<>>, closed |-> FALSE],
                 locked |-> FALSE, unlocks |-> 0, reply |-> "none",
                 ret |-> [kind |-> "running"]]

\* the bufio.Writer at the start of a call on it
AmsW == [ams.w EXCEPT !.err = FALSE]

\* ow.Abort() (or c.release) and the return of a ProtocolError
AmsAbort(w, fwr, op) ==
    ams' = [ams EXCEPT !.pc = "done", !.w = w, !.fw = fwr, !.locked = FALSE,
                       !.unlocks = @ + 1, !.ret = ProtocolError(op)]

\* a step that went well
AmsGoto(next, w, fwr) ==
    ams' = [ams EXCEPT !.pc = next, !.w = w, !.fw = fwr]

\* DoStreaming: lock, write the operation code
AmsDoStreaming ==
    /\ ams.pc = "DoStreaming"
    /\ LET w == Accept(AmsW, PutUint64(OpAddMultipleToStore))
       IN  IF w.err
           THEN ams' = [ams EXCEPT !.pc = "done", !.w = w, !.unlocks = @ + 1,
                                   !.ret = ProtocolError("AddMultipleToStore write op")]
           ELSE ams' = [ams EXCEPT !.pc = "repair", !.w = w, !.locked = TRUE]
    /\ UNCHANGED AmsOthers

\* wire.WriteBool(ow, repair)
AmsWriteRepair ==
    /\ ams.pc = "repair"
    /\ LET w == Accept(AmsW, WriteBool(ams.repair))
       IN  IF w.err THEN AmsAbort(w, ams.fw, "AddMultipleToStore write repair")
           ELSE AmsGoto("dontCheckSigs", w, ams.fw)
    /\ UNCHANGED AmsOthers

\* wire.WriteBool(ow, dontCheckSigs)
AmsWriteDontCheckSigs ==
    /\ ams.pc = "dontCheckSigs"
    /\ LET w == Accept(AmsW, WriteBool(ams.dontCheckSigs))
       IN  IF w.err THEN AmsAbort(w, ams.fw, "AddMultipleToStore write dontCheckSigs")
           ELSE AmsGoto("flush", w, ams.fw)
    /\ UNCHANGED AmsOthers

\* ow.Flush() before the framed stream
AmsFlush ==
    /\ ams.pc = "flush"
    /\ LET w == Accept(AmsW, <<>>)
       IN  IF w.err THEN AmsAbort(w, ams.fw, "AddMultipleToStore flush")
           ELSE ams' = [ams EXCEPT !.pc = "count", !.w = w, !.flushed = Len(w.out)]
    /\ UNCHANGED AmsOthers

\* fw.Write(p) on the FramedWriter of the call
AmsFramedWrite(p) ==
    WriteLoop([w |-> AmsW, buf |-> ams.fw.buf, p |-> p, written |-> 0])

\* fw := ow.NewFramedWriter(); wire.WriteUint64(fw, len(items))
AmsWriteCount ==
    /\ ams.pc = "count"
    /\ LET st == AmsFramedWrite(PutUint64(Len(ams.items)))
           fwr == [ams.fw EXCEPT !.buf = st.buf]
       IN  IF st.w.err THEN AmsAbort(st.w, fwr, "AddMultipleToStore write count")
           ELSE AmsGoto(IF Len(ams.items) = 0 THEN "close" ELSE "pathInfo", st.w, fwr)
    /\ UNCHANGED AmsOthers

\* WritePathInfo(fw, &items[i].Info)
AmsWritePathInfo ==
    /\ ams.pc = "pathInfo"
    /\ LET st == AmsFramedWrite(WritePathInfo(ams.items[ams.i + 1].Info))
           fwr == [ams.fw EXCEPT !.buf = st.buf]
       IN  IF st.w.err THEN AmsAbort(st.w, fwr, "AddMultipleToStore write path info")
           ELSE AmsGoto("nar", st.w, fwr)
    /\ UNCHANGED AmsOthers

\* a copy that ends the framed stream after every item
AmsCopyNarTerminated ==
    /\ ams.pc = "nar"
    /\ LET st == AmsFramedWrite(ams.items[ams.i + 1].Source)
           f == flush(st.w, st.buf)
           w == Accept(f.w, PutUint64(0))
           fwr == [ams.fw EXCEPT !.buf = f.buf]
       IN  IF w.err THEN AmsAbort(w, fwr, "AddMultipleToStore stream NAR")
           ELSE ams' = [ams EXCEPT !.w = w, !.fw = fwr, !.i = @ + 1,
                                   !.pc = IF ams.i + 1 < Len(ams.items)
                                          THEN "pathInfo" ELSE "close"]
    /\ UNCHANGED AmsOthers

\* io.Copy(fw, items[i].Source), and the next turn of the loop
AmsCopyNar ==
    /\ ams.pc = "nar"
    /\ LET st == AmsFramedWrite(ams.items[ams.i + 1].Source)
           fwr == [ams.fw EXCEPT !.buf = st.buf]
       IN  IF st.w.err THEN AmsAbort(st.w, fwr, "AddMultipleToStore stream NAR")
           ELSE ams' = [ams EXCEPT !.w = st.w, !.fw = fwr, !.i = @ + 1,
                                   !.pc = IF ams.i + 1 < Len(ams.items)
                                          THEN "pathInfo" ELSE "close"]
    /\ UNCHANGED AmsOthers

\* fw.Close()
AmsCloseFramed ==
    /\ ams.pc = "close"
    /\ LET f == flush(AmsW, ams.fw.buf)
           w == Accept(f.w, PutUint64(0))
           fwr == [buf |-> f.buf, closed |-> TRUE]
       IN  IF w.err THEN AmsAbort(w, fwr, "AddMultipleToStore close framed writer")
           ELSE AmsGoto("closeRequest", w, fwr)
    /\ UNCHANGED AmsOthers

\* ow.CloseRequest(): flush, ProcessStderr on what the daemon replies; then
\* resp.Close()
AmsCloseRequest ==
    /\ ams.pc = "closeRequest"
    /\ LET w == Accept(AmsW, <<>>)
       IN  IF w.err
           THEN AmsAbort(w, ams.fw, "AddMultipleToStore flush")
           ELSE \E reply \in {"LogLast", "LogError"} :
                   ams' = [ams EXCEPT !.pc = "done", !.w = w, !.flushed = Len(w.out),
                                      !.reply = reply, !.locked = FALSE,
                                      !.unlocks = @ + 1,
                                      !.ret = IF reply = "LogLast" THEN [kind |-> "nil"]
                                              ELSE [kind |-> "DaemonError"]]
    /\ UNCHANGED AmsOthers

AmsStep ==
    \/ AmsDoStreaming \/ AmsWriteRepair \/ AmsWriteDontCheckSigs \/ AmsFlush
    \/ AmsWriteCount \/ AmsWritePathInfo \/ AmsCopyNar \/ AmsCloseFramed
    \/ AmsCloseRequest

SpecAddMultiple == AmsInit /\ [][AmsStep]_vars

\* ------------------------------------------------------------------ QueryPathInfo
OpQueryPathInfo == 26

\* calls made one after the other on the connection
MaxQueries == 2

\* the path call k asks for
QpiPath(k) == IF k % 2 = 1 THEN Str9 ELSE Str1

\* the fields after the store path (UnkeyedValidPathInfo)
UnkeyedPathInfo(info) ==
    SubSeq(WritePathInfo(info), Len(WireString(info.StorePath)) + 1,
           Len(WritePathInfo(info)))

\* what the daemon answers to one call: log lines, LogLast, the presence
\* word, and the path info when the path is there
respondQueryPathInfoNotFound == PutUint64(LogLast) \o PutUint64(0)
respondQueryPathInfo(info) ==
    PutUint64(LogLast) \o PutUint64(1) \o UnkeyedPathInfo(info)
QpiReplies ==
    {respondQueryPathInfoNotFound,
     respondQueryPathInfo(InfoOne),
     respondQueryPathInfo(InfoTwo),
     PutUint64(LogNext) \o WireString(Str9) \o respondQueryPathInfoNotFound}

\* the replies to the calls, one after the other
RECURSIVE Concat(_)
Concat(ss) == IF ss = <<>> THEN <<>> ELSE Head(ss) \o Concat(Tail(ss))

\* QueryPathInfo is called on a connection on which the daemon sends the
\* replies, or hangs up somewhere in them
QpiInit ==
    /\ EarlierOff
    /\ AmsOff /\ CdcOff /\ NrdOff /\ HdlOff /\ AsnOff
    /\ \E replies \in [1..MaxQueries -> QpiReplies] :
          \E n \in 0..Len(Concat(replies)) :
              qpi = [pc |-> "lock", call |-> 1,
                     stream |-> SubSeq(Concat(replies), 1, n), pos |-> 0,
                     out |-> <<>>, locked |-> FALSE, unlocks |-> 0,
                     info |-> <<>>, err |-> [kind |-> "nil"], start |-> 0,
                     rets |-> <<>>]

\* ProcessStderr on the bytes of the connection, for the messages the
\* replies carry: LogLast ends it, LogNext carries a line
RECURSIVE QpiStderr(_, _)
QpiStderr(s, pos) ==
    LET type == ReadUint64Bytes(s, pos)
        text == ReadStringBytes(s, type.pos, MaxStringSize)
        failed(at, op) == [ok |-> FALSE, pos |-> at, err |-> ProtocolError(op)]
    IN  IF ~type.ok THEN failed(type.pos, "read stderr message type")
        ELSE IF type.v = LogLast THEN [ok |-> TRUE, pos |-> type.pos, err |-> [kind |-> "nil"]]
        ELSE IF type.v = LogNext
             THEN IF ~text.ok THEN failed(text.pos, "read LogNext text")
                  ELSE QpiStderr(s, text.pos)
        ELSE failed(type.pos, "unknown stderr message type")

\* doOp: ctx.Err() is nil; lockForCtx
QpiLock ==
    /\ qpi.pc = "lock"
    /\ qpi' = [qpi EXCEPT !.pc = "request", !.locked = TRUE, !.start = qpi.pos,
                          !.info = <<>>, !.err = [kind |-> "nil"]]
    /\ UNCHANGED QpiOthers

\* doOp: the operation code, the path, the flush
QpiRequest ==
    /\ qpi.pc = "request"
    /\ qpi' = [qpi EXCEPT !.pc = "stderr",
                          !.out = @ \o PutUint64(OpQueryPathInfo)
                                    \o WireString(QpiPath(qpi.call))]
    /\ UNCHANGED QpiOthers

\* doOp: ProcessStderr
QpiProcessStderr ==
    /\ qpi.pc = "stderr"
    /\ LET r == QpiStderr(qpi.stream, qpi.pos)
       IN  qpi' = [qpi EXCEPT !.pc = IF r.ok THEN "found" ELSE "release",
                              !.pos = r.pos, !.err = r.err]
    /\ UNCHANGED QpiOthers

\* readResp reads the presence word and goes on whatever it is
QpiReadFoundNoStop ==
    /\ qpi.pc = "found"
    /\ LET found == ReadBool(qpi.stream, qpi.pos)
       IN  IF ~found.ok
           THEN qpi' = [qpi EXCEPT !.pc = "release", !.pos = found.pos,
                                   !.err = ProtocolError("QueryPathInfo read response")]
           ELSE qpi' = [qpi EXCEPT !.pc = "info", !.pos = found.pos]
    /\ UNCHANGED QpiOthers

\* readResp: the presence word; nothing more when the path is not found
QpiReadFound ==
    /\ qpi.pc = "found"
    /\ LET found == ReadBool(qpi.stream, qpi.pos)
       IN  IF ~found.ok
           THEN qpi' = [qpi EXCEPT !.pc = "release", !.pos = found.pos,
                                   !.err = ProtocolError("QueryPathInfo read response")]
           ELSE IF ~found.v
           THEN qpi' = [qpi EXCEPT !.pc = "release", !.pos = found.pos]
           ELSE qpi' = [qpi EXCEPT !.pc = "info", !.pos = found.pos]
    /\ UNCHANGED QpiOthers

\* readResp: ReadPathInfo with the path asked for
QpiReadPathInfo ==
    /\ qpi.pc = "info"
    /\ LET r == ReadPathInfo(qpi.stream, qpi.pos, QpiPath(qpi.call))
       IN  IF r.ok
           THEN qpi' = [qpi EXCEPT !.pc = "release", !.pos = r.pos, !.info = <<r.v>>]
           ELSE qpi' = [qpi EXCEPT !.pc = "release", !.pos = r.pos,
                                   !.err = ProtocolError("QueryPathInfo read response")]
    /\ UNCHANGED QpiOthers

\* the deferred c.release, and the return of info and err
QpiRelease ==
    /\ qpi.pc = "release"
    /\ qpi' = [qpi EXCEPT !.pc = IF qpi.call < MaxQueries THEN "lock" ELSE "done",
                          !.call = @ + 1, !.locked = FALSE, !.unlocks = @ + 1,
                          !.rets = Append(@, [info |-> qpi.info, err |-> qpi.err,
                                              start |-> qpi.start, pos |-> qpi.pos])]
    /\ UNCHANGED QpiOthers

QpiStep ==
    \/ QpiLock
    \/ QpiRequest
    \/ QpiProcessStderr
    \/ QpiReadFound
    \/ QpiReadPathInfo
    \/ QpiRelease

SpecQuery == QpiInit /\ [][QpiStep]_vars

\* ------------------------------------------------------------------ codecs on values
\* entries of a map
MaxEntries == 3

\* keys and values of the maps; 200 is a byte above the ASCII range
MapKeys == {Str0, Str1, <<97, 98>>, <<98>>, <<200>>}
MapValues == {Str0, Str9}

\* a Go map[string]string is a function from its keys
StringMaps(n) ==
    UNION {[S -> MapValues] : S \in {T \in SUBSET MapKeys : Cardinality(T) <= n}}

\* the orders in which "for k := range m" may deliver the keys S
Orders(S) ==
    {o \in [1..Cardinality(S) -> S] :
        \A i, j \in 1..Cardinality(S) : i # j => o[i] # o[j]}

\* a < b for Go strings: byte by byte, a proper prefix first
Less(a, b) ==
    \E i \in 1..Len(b) :
        /\ \A j \in 1..(i - 1) : j <= Len(a) /\ a[j] = b[j]
        /\ i > Len(a) \/ a[i] < b[i]

\* sort.Strings
RECURSIVE Insert(_, _)
Insert(k, sorted) ==
    IF sorted = <<>> THEN <<k>>
    ELSE IF Less(k, Head(sorted)) THEN <<k>> \o sorted
    ELSE <<Head(sorted)>> \o Insert(k, Tail(sorted))
RECURSIVE SortStrings(_)
SortStrings(keys) ==
    IF keys = <<>> THEN <<>> ELSE Insert(Head(keys), SortStrings(Tail(keys)))

\* WriteStringMap without sort.Strings
WriteStringMapUnsorted(m, order) ==
    PutUint64(Len(order))
        \o Concat([i \in 1..Len(order) |->
                      WireString(order[i]) \o WireString(m[order[i]])])

\* WriteStringMap, when the range over m delivers the keys in order
WriteStringMap(m, order) ==
    LET keys == SortStrings(order)
    IN  PutUint64(Len(keys))
            \o Concat([i \in 1..Len(keys) |->
                          WireString(keys[i]) \o WireString(m[keys[i]])])

\* WriteBasicDerivation, when the ranges over drv.Outputs and drv.Env deliver
\* the keys in outOrder and envOrder
WriteBasicDerivation(drv, outOrder, envOrder) ==
    LET outputNames == SortStrings(outOrder)
    IN  PutUint64(Len(outputNames))
            \o Concat([i \in 1..Len(outputNames) |->
                          WireString(outputNames[i])
                              \o WireString(drv.Outputs[outputNames[i]].Path)
                              \o WireString(drv.Outputs[outputNames[i]].HashAlgorithm)
                              \o WireString(drv.Outputs[outputNames[i]].Hash)])
            \o WriteStrings(drv.Inputs)
            \o WireString(drv.Platform)
            \o WireString(drv.Builder)
            \o WriteStrings(drv.Args)
            \o WriteStringMap(drv.Env, envOrder)

\* WriteClientSettings: the fields of SetOptions, then the overrides
WriteClientSettings(settings, order) ==
    WriteBool(settings.KeepFailed) \o WriteBool(settings.KeepGoing)
        \o WriteBool(settings.TryFallback)
        \o PutUint64(settings.Verbosity)
        \o PutUint64(settings.MaxBuildJobs)
        \o PutUint64(settings.MaxSilentTime)
        \o WriteBool(TRUE)
        \o PutUint64(settings.BuildVerbosity)
        \o PutUint64(0)
        \o PutUint64(0)
        \o PutUint64(settings.BuildCores)
        \o WriteBool(settings.UseSubstitutes)
        \o WriteStringMap(settings.Overrides, order)

\* DefaultClientSettings with overrides
DefaultClientSettings(overrides) ==
    [KeepFailed |-> FALSE, KeepGoing |-> FALSE, TryFallback |-> FALSE,
     Verbosity |-> 0, MaxBuildJobs |-> 1, MaxSilentTime |-> 0,
     BuildVerbosity |-> 0, BuildCores |-> 0, UseSubstitutes |-> TRUE,
     Overrides |-> overrides]

\* the values the codecs are applied to
Slices == {NilSlice, SliceOf(<<>>), SliceOf(<<Str9>>), SliceOf(<<Str1, Str0>>)}
PathInfos ==
    [StorePath : {Str0, Str1, Str9}, Deriver : {Str0, Str1, Str9},
     NarHash : {Str1, Str9}, References : Slices,
     RegistrationTime : {0, 1700000000}, NarSize : {0, 54321},
     Ultimate : BOOLEAN, Sigs : Slices, CA : {Str0, Str9}]
Derivations ==
    {[Outputs |-> [name \in S |-> [Path |-> <<47>> \o name, HashAlgorithm |-> Str0,
                                   Hash |-> Str0]],
      Inputs |-> SliceOf(<<Str9>>), Platform |-> Str9, Builder |-> Str1,
      Args |-> NilSlice, Env |-> env] :
        S \in {T \in SUBSET MapKeys : Cardinality(T) <= MaxEntries},
        env \in StringMaps(MaxEntries - 1)}

\* the settings SetOptions is called with
ClientSettingsValues ==
    [KeepFailed : BOOLEAN, KeepGoing : BOOLEAN, TryFallback : BOOLEAN,
     Verbosity : {0, 7}, MaxBuildJobs : {1, 16}, MaxSilentTime : {0, 3600},
     BuildVerbosity : {0, 7}, BuildCores : {0, 8}, UseSubstitutes : BOOLEAN,
     Overrides : StringMaps(1)]

\* CollectGarbage's writeReq: the action, the paths to delete, the
\* liveness flag, maxFreed, then the three deprecated words
CollectGarbageRequest(options) ==
    PutUint64(options.Action) \o WriteStrings(options.PathsToDelete)
        \o WriteBool(options.IgnoreLiveness)
        \o PutUint64(options.MaxFreed)
        \o PutUint64(0) \o PutUint64(0) \o PutUint64(0)

\* a response reader that leaves the deprecated word in the stream
CollectGarbageResponseKeepsWord(s, pos) ==
    LET paths == ReadStrings(s, pos, MaxStringSize)
        bytesFreed == ReadUint64Bytes(s, paths.pos)
    IN  IF ~paths.ok
        THEN [ok |-> FALSE, pos |-> paths.pos, Paths |-> NilSlice, BytesFreed |-> 0]
        ELSE IF ~bytesFreed.ok
        THEN [ok |-> FALSE, pos |-> bytesFreed.pos, Paths |-> paths.v,
              BytesFreed |-> 0]
        ELSE [ok |-> TRUE, pos |-> bytesFreed.pos, Paths |-> paths.v,
              BytesFreed |-> bytesFreed.v]

\* CollectGarbage's readResp: the paths, bytesFreed, then one deprecated
\* word whose value is dropped and whose read error is the result
CollectGarbageResponse(s, pos) ==
    LET paths == ReadStrings(s, pos, MaxStringSize)
        bytesFreed == ReadUint64Bytes(s, paths.pos)
        deprecated == ReadUint64Bytes(s, bytesFreed.pos)
    IN  IF ~paths.ok
        THEN [ok |-> FALSE, pos |-> paths.pos, Paths |-> NilSlice, BytesFreed |-> 0]
        ELSE IF ~bytesFreed.ok
        THEN [ok |-> FALSE, pos |-> bytesFreed.pos, Paths |-> paths.v,
              BytesFreed |-> 0]
        ELSE [ok |-> deprecated.ok, pos |-> deprecated.pos, Paths |-> paths.v,
              BytesFreed |-> bytesFreed.v]

\* the options CollectGarbage is called with
GCOptionsValues ==
    [Action : {0, 1, 2, 3}, PathsToDelete : Slices, IgnoreLiveness : BOOLEAN,
     MaxFreed : {0, 4096, 1700000000}]

\* what a daemon answers to CollectGarbage: the paths, bytesFreed, a word
\* it no longer uses, and whatever it sends next
GCReplyBytes(reply) ==
    PutUint64(Len(reply.paths)) \o WireStrings(reply.paths)
        \o PutUint64(reply.freed) \o PutUint64(reply.word)
GCReplies ==
    [paths : {<<>>, <<Str9>>, <<Str1, Str0>>}, freed : {0, 4096},
     word : {0, 7}, tail : {<<>>, PutUint64(LogLast)}]

\* a codec is about to be applied to a value
CdcInit ==
    /\ EarlierOff
    /\ AmsOff /\ QpiOff /\ NrdOff /\ HdlOff /\ AsnOff
    /\ \/ \E info \in PathInfos : cdc = [pc |-> "WritePathInfo", info |-> info]
       \/ \E m \in StringMaps(MaxEntries) : cdc = [pc |-> "WriteStringMap", m |-> m]
       \/ \E drv \in Derivations : cdc = [pc |-> "WriteBasicDerivation", drv |-> drv]
       \/ \E m \in StringMaps(MaxEntries) :
             cdc = [pc |-> "WriteClientSettings", settings |-> DefaultClientSettings(m)]
       \/ \E settings \in ClientSettingsValues :
             cdc = [pc |-> "WriteClientSettings", settings |-> settings]
       \/ \E options \in GCOptionsValues :
             cdc = [pc |-> "CollectGarbageRequest", options |-> options]
       \/ \E reply \in GCReplies :
             \E len \in 0..Len(GCReplyBytes(reply) \o reply.tail) :
                cdc = [pc |-> "CollectGarbageResponse", reply |-> reply,
                       bytes |-> SubSeq(GCReplyBytes(reply) \o reply.tail, 1, len)]

\* WritePathInfo into a buffer
CdcWritePathInfo ==
    /\ cdc.pc = "WritePathInfo"
    /\ cdc' = [pc |-> "ReadString", info |-> cdc.info,
               bytes |-> WritePathInfo(cdc.info)]
    /\ UNCHANGED CdcOthers

\* wire.ReadString of the store path from the buffer
CdcReadString ==
    /\ cdc.pc = "ReadString"
    /\ cdc' = [pc |-> "ReadPathInfo", info |-> cdc.info, bytes |-> cdc.bytes,
               storePath |-> ReadStringBytes(cdc.bytes, 0, MaxStringSize)]
    /\ UNCHANGED CdcOthers

\* ReadPathInfo of the rest, with the store path read
CdcReadPathInfo ==
    /\ cdc.pc = "ReadPathInfo"
    /\ cdc' = [pc |-> "read", info |-> cdc.info, bytes |-> cdc.bytes,
               storePath |-> cdc.storePath,
               got |-> IF cdc.storePath.ok
                       THEN ReadPathInfo(cdc.bytes, cdc.storePath.pos, cdc.storePath.v)
                       ELSE [ok |-> FALSE, v |-> <<>>, pos |-> cdc.storePath.pos,
                             err |-> ProtocolError("read store path")]]
    /\ UNCHANGED CdcOthers

\* WriteStringMap into a buffer
CdcWriteStringMap ==
    /\ cdc.pc = "WriteStringMap"
    /\ \E order \in Orders(DOMAIN cdc.m) :
          cdc' = [pc |-> "written", op |-> "WriteStringMap", val |-> cdc.m,
                  bytes |-> WriteStringMap(cdc.m, order)]
    /\ UNCHANGED CdcOthers

\* WriteBasicDerivation into a buffer
CdcWriteBasicDerivation ==
    /\ cdc.pc = "WriteBasicDerivation"
    /\ \E outOrder \in Orders(DOMAIN cdc.drv.Outputs),
          envOrder \in Orders(DOMAIN cdc.drv.Env) :
          cdc' = [pc |-> "written", op |-> "WriteBasicDerivation", val |-> cdc.drv,
                  bytes |-> WriteBasicDerivation(cdc.drv, outOrder, envOrder)]
    /\ UNCHANGED CdcOthers

\* WriteClientSettings into a buffer
CdcWriteClientSettings ==
    /\ cdc.pc = "WriteClientSettings"
    /\ \E order \in Orders(DOMAIN cdc.settings.Overrides) :
          cdc' = [pc |-> "written", op |-> "WriteClientSettings",
                  val |-> cdc.settings,
                  bytes |-> WriteClientSettings(cdc.settings, order)]
    /\ UNCHANGED CdcOthers

\* CollectGarbage's request into a buffer
CdcCollectGarbageRequest ==
    /\ cdc.pc = "CollectGarbageRequest"
    /\ cdc' = [pc |-> "written", op |-> "CollectGarbage", val |-> cdc.options,
               bytes |-> CollectGarbageRequest(cdc.options)]
    /\ UNCHANGED CdcOthers

\* CollectGarbage's response from what the daemon sent
CdcCollectGarbageResponse ==
    /\ cdc.pc = "CollectGarbageResponse"
    /\ cdc' = [pc |-> "gcRead", reply |-> cdc.reply, bytes |-> cdc.bytes,
               got |-> CollectGarbageResponse(cdc.bytes, 0)]
    /\ UNCHANGED CdcOthers

CdcStep ==
    \/ CdcWritePathInfo
    \/ CdcReadString
    \/ CdcReadPathInfo
    \/ CdcWriteStringMap
    \/ CdcWriteBasicDerivation
    \/ CdcWriteClientSettings
    \/ CdcCollectGarbageRequest
    \/ CdcCollectGarbageResponse

SpecCodec == CdcInit /\ [][CdcStep]_vars

\* ------------------------------------------------------------------ narv2 Reader
\* the tokens of reader.go
tokNar == WireStrings(<<TokMagic, TokOpen, TokType>>)
tokReg == WireStrings(<<TokRegular, TokContents>>)
tokExe == WireStrings(<<TokRegular, TokExecutable, Str0, TokContents>>)
tokSym == WireStrings(<<TokSymlink, TokTarget>>)
tokDir == WireStrings(<<TokDirectory>>)
tokEnt == WireStrings(<<TokEntry, TokOpen, TokName>>)
tokNod == WireStrings(<<TokNode, TokOpen, TokType>>)
tokPar == WireStrings(<<TokClose>>)

TagSym == 6
TagReg == 8
TagExe == 10
TagDir == 121

\* calls of Next on one reader
MaxNexts == 9

\* nodes of a file system: files, links and directories of named entries
File(contents) == [type |-> "regular", executable |-> FALSE, contents |-> contents]
Exe(contents) == [type |-> "regular", executable |-> TRUE, contents |-> contents]
Link(target) == [type |-> "symlink", target |-> target]
Dir(entries) == [type |-> "directory", entries |-> entries]
Entry(name, node) == [name |-> name, node |-> node]

\* names: "a", "d", "f"
NameA == <<97>>
NameD == <<100>>
NameF == <<102>>

\* the archive of a node: "(" "type" ... ")"
RECURSIVE NarNode(_)
NarNode(n) ==
    WireStrings(<<TokOpen, TokType>>)
        \o (IF n.type = "regular"
            THEN (IF n.executable THEN tokExe ELSE tokReg) \o WireString(n.contents)
            ELSE IF n.type = "symlink"
            THEN tokSym \o WireString(n.target)
            ELSE tokDir \o Concat([i \in 1..Len(n.entries) |->
                                     tokEnt \o WireString(n.entries[i].name)
                                         \o WireStrings(<<TokNode>>)
                                         \o NarNode(n.entries[i].node)
                                         \o tokPar]))
        \o tokPar
NarOf(root) == WireStrings(<<TokMagic>>) \o NarNode(root)

\* the trees that are read: single nodes, a directory of the three kinds of
\* node, a directory after which its parent has one more entry, a file with the
\* name of its directory, a directory with the name of its parent
NrdTrees ==
    {File(<<1>>), File(<<>>), Exe(Str9), Link(Str9), Dir(<<>>),
     Dir(<<Entry(NameA, File(Str9)), Entry(NameD, Link(Str1)), Entry(NameF, Exe(<<>>))>>),
     Dir(<<Entry(NameD, Dir(<<Entry(NameA, File(<<1>>))>>)), Entry(NameF, File(<<1>>))>>),
     Dir(<<Entry(NameD, Dir(<<Entry(NameD, File(<<1>>))>>))>>),
     Dir(<<Entry(NameD, Dir(<<Entry(NameD, Dir(<<>>))>>))>>)}

\* NewReader on the archive of a tree, or on the first words of it
NrdInit ==
    /\ EarlierOff
    /\ AmsOff /\ QpiOff /\ CdcOff /\ HdlOff /\ AsnOff
    /\ \E tree \in NrdTrees :
          \E n \in 0..(Len(NarOf(tree)) \div 8) :
              nrd = [pc |-> "open", tree |-> tree, whole |-> 8 * n = Len(NarOf(tree)),
                     s |-> SubSeq(NarOf(tree), 1, 8 * n), pos |-> 0,
                     err |-> "nil", depth |-> 0, name |-> <<>>, path |-> <<47>>,
                     target |-> <<>>, size |-> 0, pad |-> 0, pathStack |-> <<>>,
                     rets |-> <<>>]

\* r.fail
fail(r, e) ==
    IF r.err # "nil" THEN r
    ELSE [r EXCEPT !.err = IF e = "EOF" THEN "ErrUnexpectedEOF" ELSE e]

\* r.peek(n): whether it returns the next n bytes, and the reader after it
CanPeek(r, n) == r.err = "nil" /\ r.pos + n <= Len(r.s)
peek(r, n) == IF r.err # "nil" \/ CanPeek(r, n) THEN r ELSE fail(r, "EOF")

\* r.consume(tok)
consume(r, tok) ==
    IF ~CanPeek(r, Len(tok)) THEN peek(r, Len(tok))
    ELSE IF SubSeq(r.s, r.pos + 1, r.pos + Len(tok)) # tok THEN fail(r, "errInvalid")
    ELSE [r EXCEPT !.pos = @ + Len(tok)]

\* r.take(n): the reader after it; the bytes are those before its position
take(r, n) == IF CanPeek(r, n) THEN [r EXCEPT !.pos = @ + n] ELSE peek(r, n)

\* r.consumePadding(n)
consumePadding(r, n) == IF n % 8 # 0 THEN consume(r, Zeros(8 - (n % 8))) ELSE r

\* r.readEnd
readEnd(r) == IF r.depth > 0 THEN consume(consume(r, tokPar), tokPar) ELSE consume(r, tokPar)

\* r.readString(max): the reader after it and the string
readString(r, max) ==
    IF ~CanPeek(r, 8) THEN [r |-> peek(r, 8), v |-> <<>>]
    ELSE LET n == Uint64(SubSeq(r.s, r.pos + 1, r.pos + 8))
             r1 == take(r, 8)
         IN  IF n > max THEN [r |-> fail(r1, "errSize"), v |-> <<>>]
             ELSE IF n = 0 THEN [r |-> fail(r1, "errInvalid"), v |-> <<>>]
             ELSE [r |-> consumePadding(take(r1, n), n),
                   v |-> IF CanPeek(r1, n) THEN SubSeq(r.s, r1.pos + 1, r1.pos + n)
                         ELSE <<>>]

\* r.readFile
readFile(r) ==
    LET size == IF CanPeek(r, 8) THEN Uint64(SubSeq(r.s, r.pos + 1, r.pos + 8)) ELSE 0
        r1 == [take(r, 8) EXCEPT !.size = size, !.pad = size % 8]
    IN  IF size = 0 THEN readEnd(r1) ELSE r1

\* r.Read(buf) with len(buf) = n: the reader after it
Read(r, n) ==
    LET want == Min(n, r.size)
        got == Min(want, Len(r.s) - r.pos)
        r1 == [r EXCEPT !.pos = @ + got, !.size = @ - got]
    IN  IF r.size = 0 THEN r
        ELSE IF got = 0 THEN fail(r1, "EOF")
        ELSE IF r1.size = 0 THEN readEnd([consumePadding(r1, r1.pad) EXCEPT !.pad = 0])
        ELSE r1

\* io.Copy(io.Discard, r): Read until the content ends or the input does
Discard(r) ==
    IF Len(r.s) - r.pos >= r.size THEN Read(r, r.size)
    ELSE fail([r EXCEPT !.size = @ - (Len(r.s) - r.pos), !.pos = Len(r.s)], "EOF")

\* path.Join of names without slashes: the empty ones are left out
RECURSIVE Join(_)
Join(elems) ==
    IF elems = <<>> THEN <<>>
    ELSE IF Head(elems) = <<>> THEN Join(Tail(elems))
    ELSE IF Join(Tail(elems)) = <<>> THEN Head(elems)
    ELSE Head(elems) \o <<47>> \o Join(Tail(elems))

\* r.updatePath
updatePath(r) ==
    [r EXCEPT !.path = IF r.pathStack = <<>> THEN <<47>> ELSE <<47>> \o Join(r.pathStack)]

\* strings.HasSuffix
HasSuffix(a, b) == Len(b) <= Len(a) /\ SubSeq(a, Len(a) - Len(b) + 1, Len(a)) = b

\* r.Path()
Path(r) ==
    IF Len(r.pathStack) > 0 /\ r.path # <<47>> /\ HasSuffix(r.path, <<47>> \o r.name)
    THEN r.path
    ELSE IF r.name = <<>> THEN r.path
    ELSE IF r.path = <<47>> THEN <<47>> \o r.name
    ELSE r.path \o <<47>> \o r.name

\* what Next returns with the reader r left behind
Returns(r, tag, e) == [r |-> r, tag |-> tag, err |-> e]

\* Next, from the node type on
NextNode(r) ==
    LET type == IF CanPeek(r, 32) THEN r.s[r.pos + 17] ELSE 0
        sym == consume(r, tokSym)
        target == readString(sym, 4095)
        reg == consume(r, tokReg)
        exe == consume(r, tokExe)
        dir == consume(r, tokDir)
    IN  IF ~CanPeek(r, 32) THEN Returns(peek(r, 32), 0, peek(r, 32).err)
        ELSE IF type = TagSym
        THEN IF sym.err # "nil" THEN Returns(sym, 0, sym.err)
             ELSE IF target.r.err # "nil"
             THEN Returns([target.r EXCEPT !.target = target.v], 0, target.r.err)
             ELSE Returns(readEnd([target.r EXCEPT !.target = target.v]), TagSym,
                          readEnd(target.r).err)
        ELSE IF type = TagReg
        THEN IF reg.err # "nil" THEN Returns(reg, 0, reg.err)
             ELSE Returns(readFile(reg), TagReg, readFile(reg).err)
        ELSE IF type = TagExe
        THEN IF exe.err # "nil" THEN Returns(exe, 0, exe.err)
             ELSE Returns(readFile(exe), TagExe, readFile(exe).err)
        ELSE IF type = TagDir
        THEN IF dir.err # "nil" THEN Returns(dir, 0, dir.err)
             ELSE Returns(updatePath([dir EXCEPT !.depth = @ + 1,
                                                 !.pathStack = Append(@, dir.name)]),
                          TagDir, "nil")
        ELSE Returns(fail(r, "errInvalid"), 0, "errInvalid")

\* Next at depth 0, after the content was skipped
NextAtRoot(r) ==
    LET end == readEnd(r)
        nar == consume(r, tokNar)
    IN  IF ~CanPeek(r, 16)
        THEN Returns([peek(r, 16) EXCEPT !.err = IF @ = "ErrUnexpectedEOF" THEN "EOF" ELSE @],
                     0, IF peek(r, 16).err = "ErrUnexpectedEOF" THEN "EOF"
                        ELSE peek(r, 16).err)
        ELSE IF r.s[r.pos + 1] = 1
        THEN Returns([end EXCEPT !.err = IF @ = "nil" THEN "EOF" ELSE @], 0,
                     IF end.err = "nil" THEN "EOF" ELSE end.err)
        ELSE IF nar.err # "nil" THEN Returns(nar, 0, nar.err)
        ELSE NextNode(nar)

\* Next inside a directory, after the content was skipped
NextInDirectory(r) ==
    LET closed == readEnd([r EXCEPT !.depth = @ - 1])
        popped == updatePath([closed EXCEPT !.pathStack =
                                 IF Len(@) > 0 THEN SubSeq(@, 1, Len(@) - 1) ELSE @])
        ent == consume(r, tokEnt)
        name == readString(ent, 255)
        nod == consume([name.r EXCEPT !.name = name.v], tokNod)
    IN  IF ~CanPeek(r, 16) THEN Returns(peek(r, 16), 0, peek(r, 16).err)
        ELSE IF r.s[r.pos + 1] = 1
        THEN IF popped.depth = 0 /\ popped.err = "nil"
             THEN Returns([popped EXCEPT !.err = "EOF"], 0, "EOF")
             ELSE Returns(popped, 0, "EOF")
        ELSE IF r.s[r.pos + 1] = 5
        THEN IF ent.err # "nil" THEN Returns(ent, 0, ent.err)
             ELSE IF name.r.err # "nil"
             THEN Returns([name.r EXCEPT !.name = name.v], 0, name.r.err)
             ELSE IF nod.err # "nil" THEN Returns(nod, 0, nod.err)
             ELSE NextNode(nod)
        ELSE Returns(fail(r, "errInvalid"), 0, "errInvalid")

\* r.Next()
NextOf(r) ==
    LET skipped == IF r.size # 0 THEN Discard(r) ELSE r
    IN  IF r.err # "nil" THEN Returns(r, 0, r.err)
        ELSE IF skipped.depth = 0 THEN NextAtRoot(skipped)
        ELSE NextInDirectory(skipped)

\* the fields of the reader
ReaderOf(r) ==
    [x \in {"s", "pos", "err", "depth", "name", "path", "target", "size", "pad",
            "pathStack"} |-> r[x]]

\* the caller calls Next, and Path when a node is returned
NrdNext ==
    /\ nrd.pc = "open"
    /\ Len(nrd.rets) < MaxNexts
    /\ LET ret == NextOf(ReaderOf(nrd))
       IN  nrd' = [x \in DOMAIN nrd |->
                      IF x \in DOMAIN ret.r THEN ret.r[x]
                      ELSE IF x = "rets"
                      THEN Append(nrd.rets, [tag |-> ret.tag, err |-> ret.err,
                                             name |-> ret.r.name,
                                             path |-> Path(ret.r), pos |-> ret.r.pos])
                      ELSE nrd[x]]
    /\ UNCHANGED NrdOthers

\* the caller reads content of the file Next returned
NrdRead ==
    /\ nrd.pc = "open"
    /\ nrd.size > 0
    /\ \E n \in {1, 8} :
          nrd' = [x \in DOMAIN nrd |->
                     IF x \in DOMAIN ReaderOf(nrd) THEN Read(ReaderOf(nrd), n)[x]
                     ELSE nrd[x]]
    /\ UNCHANGED NrdOthers

NrdStep ==
    \/ NrdNext
    \/ NrdRead

SpecNarReader == NrdInit /\ [][NrdStep]_vars

\* ------------------------------------------------------------------ OpWriter and OpResponse
\* calls made on the handles of one streaming operation
MaxHandleCalls == 5

\* DoStreaming has returned an OpWriter: the mutex is held for the operation
\* and the cancellation callback is registered
HdlInit ==
    /\ EarlierOff
    /\ AmsOff /\ QpiOff /\ CdcOff /\ NrdOff /\ AsnOff
    /\ hdl = [pc |-> "open", done |-> FALSE, resp |-> "none", once |-> FALSE,
              holder |-> "op", cancel |-> "armed", deadline |-> "none",
              unlocks |-> 0, unheld |-> 0, calls |-> <<>>]

\* OpWriter.release and the function OpResponse.Close runs once: cancel,
\* SetDeadline(noDeadline), Unlock.  Unlock of a mutex the operation does not
\* hold is counted.
HdlRelease(h) ==
    [h EXCEPT !.cancel = "stopped", !.deadline = "none",
              !.holder = IF @ = "op" THEN "none" ELSE @,
              !.unlocks = @ + 1,
              !.unheld = IF h.holder = "op" THEN @ ELSE @ + 1]

\* the call is noted
HdlCalled(h, name) == [h EXCEPT !.calls = Append(@, name)]

\* OpWriter.CloseRequest: the flush or ProcessStderr may fail
HdlCloseRequest ==
    /\ hdl.pc = "open"
    /\ Len(hdl.calls) < MaxHandleCalls
    /\ IF hdl.done
       THEN hdl' = HdlCalled(hdl, "CloseRequest: closed")
       ELSE \E outcome \in {"flush fails", "stderr fails", "response"} :
               hdl' = IF outcome = "response"
                      THEN HdlCalled([hdl EXCEPT !.done = TRUE, !.resp = "open"],
                                     "CloseRequest: response")
                      ELSE HdlCalled(HdlRelease([hdl EXCEPT !.done = TRUE]),
                                     "CloseRequest: " \o outcome)
    /\ UNCHANGED HdlOthers

\* OpWriter.Abort that releases whatever ow.done is
HdlAbortUnchecked ==
    /\ hdl.pc = "open"
    /\ Len(hdl.calls) < MaxHandleCalls
    /\ hdl' = HdlCalled(HdlRelease([hdl EXCEPT !.done = TRUE]), "Abort")
    /\ UNCHANGED HdlOthers

\* OpWriter.Abort
HdlAbort ==
    /\ hdl.pc = "open"
    /\ Len(hdl.calls) < MaxHandleCalls
    /\ hdl' = IF ~hdl.done
              THEN HdlCalled(HdlRelease([hdl EXCEPT !.done = TRUE]), "Abort")
              ELSE HdlCalled(hdl, "Abort")
    /\ UNCHANGED HdlOthers

\* OpResponse.Close on the response CloseRequest returned
HdlClose ==
    /\ hdl.pc = "open"
    /\ Len(hdl.calls) < MaxHandleCalls
    /\ hdl.resp # "none"
    /\ hdl' = IF ~hdl.once
              THEN HdlCalled(HdlRelease([hdl EXCEPT !.resp = "closed", !.once = TRUE]),
                             "Close")
              ELSE HdlCalled([hdl EXCEPT !.resp = "closed"], "Close")
    /\ UNCHANGED HdlOthers

\* another operation of the client takes the mutex when it is free, and
\* releases it
HdlOtherLock ==
    /\ hdl.pc = "open"
    /\ hdl.holder = "none"
    /\ hdl' = [hdl EXCEPT !.holder = "other"]
    /\ UNCHANGED HdlOthers
HdlOtherUnlock ==
    /\ hdl.pc = "open"
    /\ hdl.holder = "other"
    /\ hdl' = [hdl EXCEPT !.holder = "none"]
    /\ UNCHANGED HdlOthers

HdlStep ==
    \/ HdlCloseRequest
    \/ HdlAbort
    \/ HdlClose
    \/ HdlOtherLock
    \/ HdlOtherUnlock

SpecHandles == HdlInit /\ [][HdlStep]_vars

\* ------------------------------------------------------------------ claims
IsErr(r) == r \notin {"none", "ok"}

\* a sequence in which equal elements are adjacent
Contiguous(s) ==
    \A i, j \in 1..Len(s) : (i < j /\ s[i] = s[j]) => s[i + 1] = s[i]

OutOps == [i \in 1..Len(out) |-> out[i].op]

\* Nothing from outside has disturbed an operation: no context was cancelled,
\* no reader was closed before its end, no payload source failed.
Undisturbed ==
    \A k \in Ops : ~ctxDone[k] /\ hres[k] # "early" /\ res[k] # "protoSource"

\* C1: the units written to the connection for one operation form one
\* contiguous block, the units read from it by one operation form one
\* contiguous block, and, as long as no operation was disturbed from outside,
\* every unit of the daemon's replies was read by the operation it answers.
C1_NoInterleaving ==
    /\ Contiguous(OutOps)
    /\ Contiguous(readBy)
    /\ Undisturbed => \A i \in 1..rpos : readBy[i] = inb[i].op

\* one operation holds the mutex and has read part of its reply while the
\* other caller waits for the mutex
C1_Witness ==
    /\ Undisturbed
    /\ \E p, q \in Callers :
          /\ pc[q] = "lock"
          /\ cur[p] # 0 /\ mu = cur[p]
          /\ \E i \in 1..rpos : readBy[i] = cur[p] /\ inb[i].op = cur[p]

\* C2: an operation that has returned an error to its caller does not hold
\* the mutex, whichever step failed.
C2_ErrorPathsUnlock == \A k \in Ops : IsErr(res[k]) => mu # k

\* an operation failed after it had taken the lock
C2_Witness ==
    \E k \in Ops : IsProto(res[k]) /\ \E i \in 1..Len(lockSeq) : lockSeq[i] = k

SeqRange(s) == {s[i] : i \in 1..Len(s)}
Increasing(s) == \A i, j \in 1..Len(s) : i < j => s[i] < s[j]

\* the call has returned and its caller holds no handle of it any more
Finished(k) == res[k] # "none" /\ \A p \in Callers : cur[p] # k

\* operation j acquired the mutex after operation k
LockedAfter(k, j) ==
    \E a, b \in 1..Len(lockSeq) : a < b /\ lockSeq[a] = k /\ lockSeq[b] = j

\* positions in inb of the units the daemon sent in reply to operation k
UnitsOf(k) == {i \in 1..Len(inb) : inb[i].op = k}
\* positions in inb of the units operation k consumed
ReadSet(k) == {i \in 1..rpos : readBy[i] = k}

\* the caller of NarFromPath holds the reader and has not closed it
ReaderOpen(k) == kind[k] = "nar" /\ res[k] = "ok" /\ \E p \in Callers : cur[p] = k

\* C3: in an undisturbed run, from the return of NarFromPath on, the operation
\* holds the mutex for as long as the caller has not closed the reader (so no
\* other operation can start), and it no longer holds it once the reader is
\* closed and the copy goroutine has ended.
C3_HeldUntilReaderClosed ==
    Undisturbed =>
        \A k \in Ops : (kind[k] = "nar" /\ res[k] = "ok") =>
            /\ ReaderOpen(k) => mu = k
            /\ (~ReaderOpen(k) /\ cp[k] = "off") => mu # k

\* C4: when the reader of NarFromPath has reported EOF in an undisturbed run,
\* the caller has read every token of the archive the daemon sent, in order,
\* the operation no longer holds the mutex, and no operation that took the
\* mutex after it has failed with a ProtocolError (a DaemonError only if the
\* daemon answered it with one).
C4_NarThenNextOp ==
    Undisturbed =>
        \A k \in Ops : (kind[k] = "nar" /\ hres[k] = "ok") =>
            /\ Increasing(nread[k])
            /\ SeqRange(nread[k]) = {i \in UnitsOf(k) : inb[i].t = "Nar"}
            /\ Len(nread[k]) = NarLen
            /\ mu # k
            /\ \A j \in Ops : (LockedAfter(k, j) /\ res[j] # "none") =>
                  \/ res[j] = "ok"
                  \/ res[j] = "daemonErr" /\ \E i \in UnitsOf(j) : inb[i].t = "Error"

\* the reader was read to EOF and closed, and a later operation returned ok
C4_Witness ==
    /\ Undisturbed
    /\ \E k, j \in Ops :
          /\ kind[k] = "nar" /\ hres[k] = "ok" /\ Finished(k)
          /\ LockedAfter(k, j) /\ Finished(j) /\ res[j] = "ok"

\* C5: no operation is ever blocked in the delivery of a log message with the
\* sink full while the sink's consumer waits for that operation to return or
\* for the mutex that operation holds.
C5_SinkNeverDeadlocks ==
    ~\E p \in Callers :
        /\ pc[p] = "send"
        /\ Len(sink) >= SinkCap
        /\ pc[LogReader] \in {"send", "lock"}

\* the operation and everything its caller did with the returned handle ended
\* in success
Succeeded(k) == Finished(k) /\ res[k] = "ok" /\ hres[k] \in {"none", "ok"}

\* C6 as stated: an operation whose context was cancelled while it was blocked
\* in a read or a write of the connection does not end in success.
C6_CancelWhileBlockedFails ==
    \A k \in Ops : fired[k] \in {"blocked", "aborted"} => ~Succeeded(k)

\* C6 amended: an operation whose context was cancelled while it was blocked
\* in connection I/O, and that was blocked in connection I/O when the callback
\* set the deadline, does not end in success; the deadline stays in the past
\* for as long as it holds the mutex, and it does not hold the mutex once it
\* has finished and its copy goroutine has ended.
C6_AbortedIOFails ==
    \A k \in Ops : fired[k] = "aborted" =>
        /\ ~Succeeded(k)
        /\ mu = k => deadline = "past"
        /\ (Finished(k) /\ cp[k] = "off") => mu # k
        /\ (Finished(k) /\ kind[k] \in {"doOp", "stream"}) => IsProto(res[k])

\* an operation aborted in its blocked I/O has returned the error and the
\* mutex is free
C6_Witness ==
    \E k \in Ops : fired[k] = "aborted" /\ res[k] = "protoTimeout" /\ mu = 0

\* C7 as stated: an operation whose context was cancelled before it acquired
\* the lock never acquires it, and returns nothing but the cancellation error.
C7_CancelBeforeLockNeverLocks ==
    \A k \in Ops : fired[k] \in {"check", "lock"} =>
        /\ k \notin SeqRange(lockSeq)
        /\ res[k] \in {"none", "ctxErr"}

\* C7 amended: an operation whose context was cancelled before its entry check
\* never acquires the lock, writes no unit, and returns the cancellation error
\* as the one step it takes.
C7_CancelBeforeCheckNeverLocks ==
    \A k \in Ops : fired[k] = "check" =>
        /\ k \notin SeqRange(lockSeq)
        /\ \A i \in 1..Len(out) : out[i].op # k
        /\ \A i \in 1..Len(wbuf) : wbuf[i].op # k
        /\ \/ res[k] = "ctxErr" /\ Finished(k)
           \/ res[k] = "none" /\ \E p \in Callers : cur[p] = k /\ pc[p] = "check"

\* the operation cancelled before its entry check has returned ctx.Err()
C7_Witness == \E k \in Ops : fired[k] = "check" /\ res[k] = "ctxErr"

\* C8: an operation whose context is cancelled does not return the
\* ProtocolError of an I/O that failed on the deadline.
C8_CancellationIsNotProtocolError ==
    \A k \in Ops : ctxDone[k] => res[k] # "protoTimeout"

\* C9: an operation that has returned a DaemonError does not hold the mutex;
\* in an undisturbed run it has consumed every unit the daemon sent in reply
\* to it, the last of them being the error header and the traces the header
\* counts, and no operation that took the mutex after it has failed with a
\* ProtocolError.
C9_DaemonErrorLeavesConnectionUsable ==
    \A k \in Ops : res[k] = "daemonErr" =>
        /\ mu # k
        /\ Undisturbed =>
              /\ ReadSet(k) = UnitsOf(k)
              /\ \E e \in ReadSet(k) :
                    /\ inb[e].t = "Error"
                    /\ {i \in ReadSet(k) : i >= e} = e..(e + inb[e].n)
                    /\ \A i \in (e + 1)..(e + inb[e].n) : inb[i].t = "Trace"
              /\ \A j \in Ops : (LockedAfter(k, j) /\ res[j] # "none") => ~IsProto(res[j])

\* a DaemonError with a trace was returned and a later operation returned ok
C9_Witness ==
    /\ Undisturbed
    /\ \E k, j \in Ops :
          /\ res[k] = "daemonErr"
          /\ \E e \in ReadSet(k) : inb[e].t = "Error" /\ inb[e].n = MaxTraces
          /\ LockedAfter(k, j) /\ res[j] = "ok"

\* positions in inb of the log messages operation k consumed
LogsReadBy(k) == {i \in ReadSet(k) : inb[i].t = "Next"}

\* C10: with a sink configured, the messages were sent into the sink in wire
\* order and each once; and in an undisturbed run, when an operation has
\* returned, every log message the daemon sent in reply to it was consumed by
\* it and has been sent into the sink.
C10_LogsDeliveredInOrder ==
    consumer # "nil" =>
        /\ Increasing(delivered)
        /\ Undisturbed =>
              \A k \in Ops : res[k] # "none" =>
                  /\ {i \in UnitsOf(k) : inb[i].t = "Next"} = LogsReadBy(k)
                  /\ LogsReadBy(k) \subseteq SeqRange(delivered)

\* an operation returned ok after two log messages of its own were delivered
C10_Witness ==
    /\ consumer # "nil"
    /\ \E k \in Ops :
          /\ res[k] = "ok"
          /\ Cardinality(LogsReadBy(k)) = 2
          /\ Len(delivered) = 2

\* operation k no longer uses the connection: its call has returned and its
\* caller has closed the response, or (NarFromPath) the copy goroutine has
\* released the mutex
Completed(k) ==
    /\ mu # k
    /\ IF kind[k] = "nar"
       THEN res[k] # "none" /\ cp[k] \notin {"read", "write", "relOk", "relErr"}
       ELSE Finished(k)

\* C11 as stated: in an undisturbed run, an operation invoked after another
\* acquires the mutex only after that other one has acquired it (operations
\* are numbered in the order of their invocation).
C11_CompleteInIssueOrder ==
    Undisturbed =>
        \A k, j \in Ops : (k < j /\ j \in SeqRange(lockSeq)) => LockedAfter(k, j)

\* C11 amended: operations complete in the order in which they acquire the
\* mutex: no operation acquires it twice, and when one operation acquired it
\* before another, the first has completed, and every unit it wrote precedes
\* every unit the other wrote.
C11_CompleteInLockOrder ==
    \A a, b \in 1..Len(lockSeq) : a < b =>
        /\ lockSeq[a] # lockSeq[b]
        /\ Completed(lockSeq[a])
        /\ \A i, j \in 1..Len(out) :
              (out[i].op = lockSeq[a] /\ out[j].op = lockSeq[b]) => i < j

\* the operation invoked second acquired the mutex first, and both completed
C11_Witness ==
    /\ Len(lockSeq) = 2
    /\ lockSeq[1] = 2
    /\ Completed(1) /\ Completed(2)
    /\ \E i, j \in 1..Len(out) : out[i].op = 2 /\ out[j].op = 1

\* ------------------------------------------------------------------ claims: ProcessStderr
\* the LogMessage a message of the stream stands for
Expected(m) ==
    CASE m.t = LogNext -> LogMessage(LogNext, m.text, <<>>, 0, <<>>)
      [] m.t = LogStartActivity ->
            LogMessage(LogStartActivity, <<>>,
                       <<[ID |-> m.id, Level |-> m.level, Type |-> m.type, Text |-> m.text,
                          Fields |-> m.fields, Parent |-> m.parent]>>, 0, <<>>)
      [] m.t = LogStopActivity -> LogMessage(LogStopActivity, <<>>, <<>>, m.id, <<>>)
      [] m.t = LogResult ->
            LogMessage(LogResult, <<>>, <<>>, 0,
                       <<[ID |-> m.id, Type |-> m.type, Fields |-> m.fields]>>)

\* the messages of ms that go to the sink, in order
RECURSIVE ToSink(_)
ToSink(ms) ==
    IF ms = <<>> THEN <<>>
    ELSE (IF Head(ms).t \in {LogRead, LogWrite} THEN <<>> ELSE <<Expected(Head(ms))>>)
         \o ToSink(Tail(ms))

\* words of the stream up to and including the tag word of the terminal message
UpToTag == Len(WriteMsgs(sent.msgs)) + 1

StderrReturned == perr.kind \notin {"off", "running"}

\* C12: on a stream of Next, StartActivity, StopActivity, Result, Read and
\* Write messages followed by Last, ProcessStderr never reads past the Last
\* tag, and it returns nil having read exactly up to and including that tag,
\* with the Next, StartActivity, StopActivity and Result messages, and only
\* those, sent to the sink in wire order.
C12_DrainsExactlyToLast ==
    (perr.kind # "off" /\ sent.last.t = LogLast /\ ~sent.cut) =>
        /\ spos <= UpToTag
        /\ StderrReturned =>
              /\ perr.kind = "nil"
              /\ spos = UpToTag
              /\ ~logs.nil => logs.msgs = ToSink(sent.msgs)

\* nil was returned for a Read message and a StartActivity with two fields,
\* with words of the response following Last
C12_Witness ==
    /\ perr.kind = "nil"
    /\ ~logs.nil
    /\ Len(sent.msgs) = 2
    /\ sent.msgs[1].t = LogRead
    /\ sent.msgs[2].t = LogStartActivity /\ Len(sent.msgs[2].fields) = 2
    /\ Len(sent.tail) > 1
    /\ Len(logs.msgs) = 1

\* C13: on a stream whose terminal message is an Error, ProcessStderr returns
\* a DaemonError with the Type, Level, Name and Message that were sent and
\* with the traces that were sent: as many, in the same order, each with its
\* havePos word and its message.
C13_DaemonErrorLossless ==
    (StderrReturned /\ sent.last.t = LogError /\ ~sent.cut) =>
        /\ perr.kind = "DaemonError"
        /\ perr.err.Type = sent.last.type
        /\ perr.err.Level = sent.last.level
        /\ perr.err.Name = sent.last.name
        /\ perr.err.Message = sent.last.message
        /\ perr.err.Traces = sent.last.traces
        /\ spos = Len(WriteMsgs(sent.msgs)) + Len(WriteMsg(sent.last))

\* a DaemonError with two traces was returned, the first with havePos 1
C13_Witness ==
    /\ perr.kind = "DaemonError"
    /\ Len(perr.err.Traces) = 2
    /\ perr.err.Traces[1].HavePos = 1
    /\ perr.err.Traces[1].Message # perr.err.Traces[2].Message
    /\ sent.msgs # <<>>

\* C14: on a stream whose terminal tag is none of the eight stderr tags,
\* ProcessStderr never reads past that tag word, and it returns a
\* ProtocolError having read exactly up to and including it, with nothing
\* sent to the sink but the messages before it.
C14_UnknownTagFatal ==
    (perr.kind # "off" /\ sent.last.t \in UnknownTags /\ ~sent.cut) =>
        /\ spos <= UpToTag
        /\ StderrReturned =>
              /\ perr.kind = "ProtocolError"
              /\ spos = UpToTag
              /\ ~logs.nil => logs.msgs = ToSink(sent.msgs)

\* a ProtocolError was returned for an unknown tag that came after two
\* delivered messages and before further words
C14_Witness ==
    /\ perr.kind = "ProtocolError"
    /\ perr.Op = "process stderr"
    /\ sent.last.t \in UnknownTags
    /\ Len(sent.tail) > 1
    /\ ~logs.nil /\ Len(logs.msgs) = 2

\* ------------------------------------------------------------------ claims: Close
\* operation k was invoked after Close
AfterClose(k) == closedAt # 0 /\ closedAt <= k /\ k < nextOp

\* operation k waits for the mutex, which is held by an operation blocked in
\* the send of a log message, while the goroutine that drains the channel is
\* one of the two: neither can ever go on
WaitsForEver(k) ==
    \E p, q \in Callers :
        /\ cur[p] = k /\ pc[p] = "lock"
        /\ cur[q] = mu /\ pc[q] = "send" /\ Len(sink) >= SinkCap
        /\ LogReader \in {p, q}

\* C15: an operation invoked after Close does not return success (neither the
\* call nor the handle it returned), and it is never left waiting for a mutex
\* that cannot be released any more.
C15_ClosedClientFailsAll ==
    \A k \in Ops : AfterClose(k) =>
        /\ res[k] # "none" => (IsErr(res[k]) /\ hres[k] # "ok")
        /\ ~WaitsForEver(k)

\* ------------------------------------------------------------------ claims: handshake
\* the first word the client read from the server is not ServerMagic
WrongMagicRead == hsRd >= 1 /\ Uint64(hsIn[1]) # ServerMagic

\* what the client has handed to its writer, flushed or not
HsWritten == hsOut \o hsW

\* C17: when the first word read from the server is not ServerMagic the
\* connect attempt ends in the ProtocolError of the magic validation, no
\* Client is ever returned by a server with a wrong magic, and all the client
\* ever writes to the connection is its own magic word.
C17_WrongMagicFatal ==
    /\ WrongMagicRead =>
          /\ hsRet = ProtocolError("handshake validate server magic")
          /\ hsPc = "done"
          /\ hsOut = writeTestUint64(ClientMagic)
          /\ hsW = <<>>
    /\ srv.magic # ServerMagic =>
          /\ hsRet.kind # "Client"
          /\ HsWritten \in {<<>>, writeTestUint64(ClientMagic)}

\* the wrong magic was read while the server had gone on to send its version
\* and the rest
C17_Witness ==
    /\ WrongMagicRead
    /\ srv.sent = Len(srv.script)
    /\ srv.rd = 1
    /\ hsRet.kind = "ProtocolError"

MinVersion == IF srv.version < ProtocolVersion THEN srv.version ELSE ProtocolVersion

\* C18: any version word the client writes is min(server version,
\* ProtocolVersion); when the server's version is below ProtocolVersion no
\* version word is written and reading the version ends the attempt in the
\* ProtocolError of the negotiation; every Client returned reports Version =
\* ProtocolVersion.
C18_NegotiatesMinimum ==
    /\ Len(HsWritten) >= 2 => Uint64(HsWritten[2]) = MinVersion
    /\ srv.version < ProtocolVersion =>
          /\ Len(HsWritten) <= 1
          /\ hsRet.kind # "Client"
          /\ hsRd >= 2 => hsRet = ProtocolError("handshake version negotiation")
    /\ hsRet.kind = "Client" =>
          /\ hsRet.Version = ProtocolVersion
          /\ srv.version >= ProtocolVersion
          /\ hsOut = writeTestUint64(ClientMagic) \o writeTestUint64(ProtocolVersion)
                       \o writeTestUint64(0) \o writeTestUint64(0)

\* a Client was returned by a server that advertises a later version, and the
\* server has read the version the client sent
C18_Witness ==
    /\ hsRet.kind = "Client"
    /\ srv.version > ProtocolVersion
    /\ srv.rd = 4

\* ------------------------------------------------------------------ claims: framed transport
\* The wire read as frames from byte pos: the payload of the whole frames, how
\* many they are, where reading stopped and why: at a terminator, at the end
\* of the bytes ("open"), in a frame cut short ("partial") or at non-zero
\* padding ("bad").
FrameLen(s, pos) == Uint64(SubSeq(s, pos + 1, pos + 8))
FrameEnd(s, pos) == pos + 8 + FrameLen(s, pos) + paddingLen(FrameLen(s, pos))

\* a whole frame of non-zero length with zero padding starts at pos
WholeFrame(s, pos) ==
    /\ pos + 8 <= Len(s)
    /\ FrameLen(s, pos) # 0
    /\ FrameEnd(s, pos) <= Len(s)
    /\ \A i \in (pos + 8 + FrameLen(s, pos) + 1)..FrameEnd(s, pos) : s[i] = 0

\* why no whole frame starts at pos
StopKind(s, pos) ==
    IF pos = Len(s) THEN "open"
    ELSE IF pos + 8 > Len(s) THEN "partial"
    ELSE IF FrameLen(s, pos) = 0 THEN "terminated"
    ELSE IF FrameEnd(s, pos) > Len(s) THEN "partial"
    ELSE "bad"

RECURSIVE ParseFrames(_, _, _, _)
ParseFrames(s, pos, data, k) ==
    IF WholeFrame(s, pos)
    THEN ParseFrames(s, FrameEnd(s, pos),
                     data \o SubSeq(s, pos + 9, pos + 8 + FrameLen(s, pos)), k + 1)
    ELSE [kind |-> StopKind(s, pos), data |-> data, frames |-> k,
          end |-> IF StopKind(s, pos) = "terminated" THEN pos + 8 ELSE pos]

Wire == ParseFrames(fwOut, 0, <<>>, 0)

\* the calls up to the first Close are Writes, and they and the Close succeeded
WrittenAndClosed ==
    \E c \in 1..Len(fwLog) :
        /\ fwLog[c].op = "Close"
        /\ \A i \in 1..c : ~fwLog[i].err
        /\ \A i \in 1..(c - 1) : fwLog[i].op = "Write"

\* the payload: the bytes of the Writes before the first Close, in order
Payload ==
    LET c == CHOOSE i \in 1..Len(fwLog) : fwLog[i].op = "Close" /\ ~fwLog[i].closed
        RECURSIVE Sum(_)
        Sum(i) == IF i = 0 THEN 0 ELSE fwLog[i].n + Sum(i - 1)
    IN  [i \in 1..Sum(c - 1) |-> i]

IsPrefix(a, b) == Len(a) <= Len(b) /\ a = SubSeq(b, 1, Len(a))

\* every Write before the first Close was split as the caller liked; the wire
\* is frames of non-zero length carrying the payload, then one terminator and
\* nothing more; the reader has returned a prefix of the payload without error
\* and returns EOF only after the whole payload
C19_State ==
    WrittenAndClosed =>
        /\ Wire.kind = "terminated"
        /\ Wire.end = Len(fwOut)
        /\ Wire.data = Payload
        /\ IsPrefix(frGot, Payload)
        /\ frRet \in {"none", "nil", "EOF"}
        /\ frRet = "EOF" => frGot = Payload /\ frPos = Len(fwOut)

\* a Read made once the whole payload was returned returns EOF
C19_Step ==
    (WrittenAndClosed /\ frGot = Payload /\ <<fr, frPos, frGot, frRet>>' # <<fr, frPos, frGot, frRet>>)
        => frRet' = "EOF" /\ frGot' = frGot

\* C19: whatever the payload and however it is split across Write calls,
\* writing it to a FramedWriter and closing it puts on the wire frames of
\* non-zero length followed by exactly one zero-length terminator, and a
\* FramedReader over those bytes returns exactly the payload and then EOF.
C19_FramedRoundTrip == []C19_State /\ [][C19_Step]_vars

\* a payload longer than a frame and not a multiple of eight, written in two
\* calls, has come back whole and the reader has returned EOF
C19_Witness ==
    /\ WrittenAndClosed
    /\ fwLog[1].n > 0 /\ fwLog[2].n > 0
    /\ Len(Payload) > FrameSize /\ Len(Payload) % 8 # 0
    /\ Wire.frames >= 2
    /\ frGot = Payload
    /\ frRet = "EOF"

\* C20: a call made after a Close emits nothing; a Write made after a Close
\* returns an error and accepts no byte, a Close made after a Close returns
\* nil; the wire never holds anything after a terminator.
C20_ClosedWriterEmitsNothing ==
    /\ \A i \in 1..Len(fwLog) :
          (\E j \in 1..(i - 1) : fwLog[j].op = "Close") =>
              /\ fwLog[i].emitted = 0
              /\ fwLog[i].op = "Write" => fwLog[i].err /\ fwLog[i].written = 0
              /\ fwLog[i].op = "Close" => ~fwLog[i].err
    /\ Wire.kind # "bad"
    /\ Wire.kind = "terminated" => Wire.end = Len(fwOut)

\* Write, Close, Write, Close, the first two successful and the Writes with
\* bytes to write
C20_Witness ==
    /\ Len(fwLog) = 4
    /\ fwLog[1].op = "Write" /\ fwLog[1].n > 0 /\ ~fwLog[1].err
    /\ fwLog[2].op = "Close" /\ ~fwLog[2].err
    /\ fwLog[3].op = "Write" /\ fwLog[3].n > FrameSize
    /\ fwLog[4].op = "Close"
    /\ Wire.kind = "terminated"

\* ------------------------------------------------------------------ claims: NAR copier
\* the copy failed, the caller read the pipe to its end and its Read returned
\* the failure
NarFailureSeen ==
    /\ narRes.kind = "returned"
    /\ Failed(narRes.c)
    /\ narRet.kind \notin {"none", "nil", "closed"}

\* C16: a failure of copyNAR (a truncated archive, an unknown node type, any
\* unexpected token) that the caller meets while reading from the NarFromPath
\* reader is reported as a ProtocolError.
C16_NarFailuresAreProtocolErrors ==
    NarFailureSeen => narRet.kind = "ProtocolError"

\* ------------------------------------------------------------------ claims: FramedReader and EOF
\* C21: the last Read of a FramedReader returned io.EOF if and only if the
\* reader has read a zero-length terminator frame; in particular no Read
\* returns io.EOF on a stream that ends before its terminator.
C21_EOFIffTerminator ==
    (frRet = "EOF") <=> fr.done

\* after the terminator a Read returns EOF and takes nothing more from the
\* underlying stream
C21_NothingAfterTerminator ==
    fr.done => (frRet = "EOF" /\ Wire.kind = "terminated" /\ frPos = Wire.end)

\* ------------------------------------------------------------------ claims: copyNAR
\* the connection delivers the archive n whole, and the caller keeps reading
CopiedWhole(n) ==
    /\ narRes.kind = "returned"
    /\ ~narLeft.limited
    /\ IsPrefix(n, narSrc)

\* C22: for every well-formed archive followed by any further bytes, copyNAR
\* returns nil, has written exactly the bytes of the archive and has consumed
\* exactly the bytes of the archive from its input.
C22_CopiesExactlyTheArchive ==
    \A n \in GoodNars :
        CopiedWhole(n) =>
            /\ ~Failed(narRes.c)
            /\ narRes.c.dst = n
            /\ narRes.c.pos = Len(n)

\* the directory archive, with tokens of the grammar after it, was copied and
\* the caller has read it to the end
C22_Witness ==
    /\ CopiedWhole(ComplexNar)
    /\ narSrc = ComplexNar \o WireStrings(<<TokClose, TokOpen>>)
    /\ narGot = ComplexNar
    /\ narRet = IoError("EOF")

\* ------------------------------------------------------------------ claims: AddMultipleToStore
\* the words written before the framed stream
AmsUnframed ==
    PutUint64(OpAddMultipleToStore) \o WriteBool(ams.repair) \o WriteBool(ams.dontCheckSigs)

\* the payload of the framed stream: the count, then each item's path info and
\* NAR bytes, in the order of the items
RECURSIVE AmsItemBytes(_)
AmsItemBytes(items) ==
    IF items = <<>> THEN <<>>
    ELSE WritePathInfo(Head(items).Info) \o Head(items).Source \o AmsItemBytes(Tail(items))

AmsPayload == PutUint64(Len(ams.items)) \o AmsItemBytes(ams.items)

\* what was written after the unframed words, read as frames
AmsWire ==
    ParseFrames(SubSeq(ams.w.out, Len(AmsUnframed) + 1, Len(ams.w.out)), 0, <<>>, 0)

AmsReturned == ams.ret.kind \in {"nil", "DaemonError"}

\* C23: AddMultipleToStore writes the operation code, repair and dontCheckSigs
\* unframed, then frames only; the frames carry the count and then, item by
\* item in the given order, the path info and the NAR bytes; nothing follows a
\* terminator; and when the request was written whole the stream holds the
\* whole payload and its one terminator, and all of it was flushed.
C23_OneFramedStream ==
    /\ IsPrefix(ams.w.out, AmsUnframed) \/ IsPrefix(AmsUnframed, ams.w.out)
    /\ Len(ams.w.out) > Len(AmsUnframed) =>
          /\ AmsWire.kind # "bad"
          /\ IsPrefix(AmsWire.data, AmsPayload)
          /\ AmsWire.kind = "terminated" =>
                /\ AmsWire.end = Len(ams.w.out) - Len(AmsUnframed)
                /\ AmsWire.data = AmsPayload
    /\ AmsReturned =>
          /\ AmsWire.kind = "terminated"
          /\ ams.flushed = Len(ams.w.out)

\* a call with two different items has returned nil
C23_Witness ==
    /\ ams.ret.kind = "nil"
    /\ Len(ams.items) = 2
    /\ ams.items[1] # ams.items[2]
    /\ ams.items[1].Source # <<>>
    /\ ams.repair /\ ~ams.dontCheckSigs

\* a call without items has returned nil: the stream is the count and the
\* terminator
C23_WitnessEmpty ==
    /\ ams.ret.kind = "nil"
    /\ ams.items = <<>>
    /\ AmsWire.frames = 1

\* ------------------------------------------------------------------ claims: QueryPathInfo
\* what a written path info is read back as, with the store path given to
\* ReadPathInfo: the lists are never nil
Decoded(info, storePath) ==
    [info EXCEPT !.StorePath = storePath,
                 !.References = SliceOf(@.elems), !.Sigs = SliceOf(@.elems)]

\* the reply the daemon gave at position pos is "not found"
QpiNotFoundAt(pos) ==
    /\ pos + 16 <= Len(qpi.stream)
    /\ SubSeq(qpi.stream, pos + 1, pos + 16) = respondQueryPathInfoNotFound

\* the reply at position pos is the whole path info i
QpiFoundAt(pos, i) ==
    /\ pos + Len(respondQueryPathInfo(i)) <= Len(qpi.stream)
    /\ SubSeq(qpi.stream, pos + 1, pos + Len(respondQueryPathInfo(i)))
           = respondQueryPathInfo(i)

\* C24: QueryPathInfo on a path the daemon reports as absent (LogLast, then the
\* presence word 0) returns no PathInfo and no error, has read nothing after
\* the presence word, and leaves the connection ready for the next operation:
\* the mutex is free, and a next call that is answered with a path info
\* returns that path info.
C24_NotFoundIsSuccess ==
    /\ qpi.pc \in {"lock", "done"} => ~qpi.locked /\ qpi.unlocks = Len(qpi.rets)
    /\ \A k \in 1..Len(qpi.rets) :
          QpiNotFoundAt(qpi.rets[k].start) =>
              /\ qpi.rets[k].info = <<>>
              /\ qpi.rets[k].err = [kind |-> "nil"]
              /\ qpi.rets[k].pos = qpi.rets[k].start + 16
              /\ \A i \in {InfoOne, InfoTwo} :
                    k < Len(qpi.rets) /\ QpiFoundAt(qpi.rets[k].pos, i) =>
                        /\ qpi.rets[k + 1].err = [kind |-> "nil"]
                        /\ qpi.rets[k + 1].info = <<Decoded(i, QpiPath(k + 1))>>

\* a call answered "not found" has returned, and the next one has returned the
\* path info it was answered with
C24_Witness ==
    /\ Len(qpi.rets) = 2
    /\ QpiNotFoundAt(qpi.rets[1].start)
    /\ QpiFoundAt(qpi.rets[1].pos, InfoTwo)
    /\ qpi.rets[2].info # <<>>

\* ------------------------------------------------------------------ claims: codecs
\* the entries of a map on the wire: left entries of so many strings each,
\* the first of them the key
RECURSIVE ReadFieldsOf(_, _, _, _)
ReadFieldsOf(s, pos, left, got) ==
    IF left = 0 THEN [ok |-> TRUE, v |-> got, pos |-> pos]
    ELSE IF ~ReadStringBytes(s, pos, MaxStringSize).ok THEN Fail(pos)
    ELSE ReadFieldsOf(s, ReadStringBytes(s, pos, MaxStringSize).pos, left - 1,
                      Append(got, ReadStringBytes(s, pos, MaxStringSize).v))
RECURSIVE WireEntries(_, _, _, _, _)
WireEntries(s, pos, left, strings, got) ==
    IF left = 0 THEN [ok |-> TRUE, v |-> got, pos |-> pos]
    ELSE IF ~ReadFieldsOf(s, pos, strings, <<>>).ok THEN Fail(pos)
    ELSE WireEntries(s, ReadFieldsOf(s, pos, strings, <<>>).pos, left - 1, strings,
                     Append(got, ReadFieldsOf(s, pos, strings, <<>>).v))

\* The map written at pos is well written: the count is the number of entries
\* of m, the keys are in strictly ascending byte order, and every entry is an
\* entry of m.  m gives the strings that follow each key.
WellWritten(s, pos, strings, m) ==
    LET count == ReadUint64Bytes(s, pos)
        entries == WireEntries(s, count.pos, count.v, strings, <<>>)
    IN  /\ count.ok /\ count.v = Cardinality(DOMAIN m)
        /\ entries.ok
        /\ \A i \in 1..(count.v - 1) : Less(entries.v[i][1], entries.v[i + 1][1])
        /\ \A i \in 1..count.v :
              /\ entries.v[i][1] \in DOMAIN m
              /\ Tail(entries.v[i]) = m[entries.v[i][1]]

\* where a well written map ends
MapEnd(s, pos, strings) ==
    WireEntries(s, ReadUint64Bytes(s, pos).pos, ReadUint64Bytes(s, pos).v,
                strings, <<>>).pos

\* the strings after each key of a string map, and of the outputs
ValuesOf(m) == [k \in DOMAIN m |-> <<m[k]>>]
OutputsOf(outputs) ==
    [k \in DOMAIN outputs |->
        <<outputs[k].Path, outputs[k].HashAlgorithm, outputs[k].Hash>>]

\* where the environment of a written derivation starts: after the outputs,
\* the inputs, the platform, the builder and the arguments
EnvStart(s) ==
    LET inputs == ReadStrings(s, MapEnd(s, 0, 4), MaxStringSize)
        platform == ReadStringBytes(s, inputs.pos, MaxStringSize)
        builder == ReadStringBytes(s, platform.pos, MaxStringSize)
        args == ReadStrings(s, builder.pos, MaxStringSize)
    IN  args.pos

\* C25: every string map the client writes (WriteStringMap, the outputs and
\* the environment of a BasicDerivation, the overrides of SetOptions) is a
\* count equal to the number of entries, followed by the entries with keys in
\* strictly ascending byte order, whatever order the range over the map
\* delivered the keys in.
C25_MapsWrittenInKeyOrder ==
    cdc.pc = "written" =>
        /\ cdc.op = "WriteStringMap" =>
              /\ WellWritten(cdc.bytes, 0, 2, ValuesOf(cdc.val))
              /\ MapEnd(cdc.bytes, 0, 2) = Len(cdc.bytes)
        /\ cdc.op = "WriteClientSettings" =>
              /\ WellWritten(cdc.bytes, 96, 2, ValuesOf(cdc.val.Overrides))
              /\ MapEnd(cdc.bytes, 96, 2) = Len(cdc.bytes)
        /\ cdc.op = "WriteBasicDerivation" =>
              /\ WellWritten(cdc.bytes, 0, 4, OutputsOf(cdc.val.Outputs))
              /\ WellWritten(cdc.bytes, EnvStart(cdc.bytes), 2, ValuesOf(cdc.val.Env))
              /\ MapEnd(cdc.bytes, EnvStart(cdc.bytes), 2) = Len(cdc.bytes)

\* a derivation has been written that has three outputs, of which one name
\* is a prefix of another and one is above the ASCII range, and two variables
C25_Witness ==
    /\ cdc.pc = "written"
    /\ cdc.op = "WriteBasicDerivation"
    /\ DOMAIN cdc.val.Outputs = {Str1, <<97, 98>>, <<200>>}
    /\ DOMAIN cdc.val.Env = {Str0, <<98>>}

\* the written path info has been read back
CdcReadBack == cdc.pc = "read"

\* C26 as stated: the bytes of WritePathInfo decode back to an equal value
\* (equal as reflect.DeepEqual and assert.Equal have it), consuming exactly
\* the bytes written.
C26_RoundTripEqual ==
    CdcReadBack =>
        /\ cdc.storePath.ok /\ cdc.got.ok
        /\ cdc.got.v = cdc.info
        /\ cdc.got.pos = Len(cdc.bytes)

\* C26: for every PathInfo, the bytes of WritePathInfo decode, when the store
\* path string is read first and the rest is given to ReadPathInfo with it,
\* to a value with the same strings, numbers, flag and list elements,
\* consuming exactly the bytes written; the lists read back are never nil, so
\* the value read is equal to the one written exactly when neither
\* References nor Sigs was nil.
C26_RoundTripUpToNil ==
    CdcReadBack =>
        /\ cdc.storePath.ok /\ cdc.storePath.v = cdc.info.StorePath
        /\ cdc.got.ok
        /\ cdc.got.v = Decoded(cdc.info, cdc.info.StorePath)
        /\ cdc.got.pos = Len(cdc.bytes)
        /\ cdc.got.v = cdc.info
               <=> ~cdc.info.References.nil /\ ~cdc.info.Sigs.nil

\* a path info with a nil list of signatures and two references, one of them
\* the empty string, has been written and read back
C26_Witness ==
    /\ CdcReadBack
    /\ cdc.info.Sigs = NilSlice
    /\ cdc.info.References = SliceOf(<<Str1, Str0>>)
    /\ cdc.info.RegistrationTime = 1700000000
    /\ cdc.got.ok

\* ------------------------------------------------------------------ claims: narv2 Reader
\* the nodes of a tree in archive order, each with its tag and its path
TagOf(n) ==
    IF n.type = "symlink" THEN TagSym
    ELSE IF n.type = "directory" THEN TagDir
    ELSE IF n.executable THEN TagExe ELSE TagReg
RECURSIVE Walk(_, _)
Walk(n, at) ==
    <<[tag |-> TagOf(n), path |-> IF at = <<>> THEN <<47>> ELSE at]>>
        \o (IF n.type = "directory"
            THEN Concat([i \in 1..Len(n.entries) |->
                            Walk(n.entries[i].node, at \o <<47>> \o n.entries[i].name)])
            ELSE <<>>)

\* the calls of Next so far that returned a node
RECURSIVE NodesOf(_)
NodesOf(rets) ==
    IF rets = <<>> THEN <<>>
    ELSE IF Head(rets).err = "nil" THEN <<Head(rets)>> \o NodesOf(Tail(rets))
    ELSE NodesOf(Tail(rets))

\* the reader is on a whole archive
NrdWhole == nrd.pc = "open" /\ nrd.whole

\* C27: calling Next until it returns io.EOF visits every node of a well-formed
\* archive exactly once, in archive order: when Next returns io.EOF, the calls
\* before it have returned all the nodes of the archive in order, and the root
\* node's closing token has been consumed.
C27_EOFAfterEveryNode ==
    NrdWhole =>
        \A k \in 1..Len(nrd.rets) :
            nrd.rets[k].err = "EOF" /\ (\A j \in 1..(k - 1) : nrd.rets[j].err = "nil") =>
                /\ k - 1 = Len(Walk(nrd.tree, <<>>))
                /\ \A j \in 1..(k - 1) : nrd.rets[j].tag = Walk(nrd.tree, <<>>)[j].tag
                /\ nrd.rets[k].pos = Len(nrd.s)

\* C27, of what the code does: Next returns the nodes of a well-formed
\* archive in archive order and never an error other than io.EOF; it returns
\* io.EOF at the end of every directory, and the io.EOF at which nothing is
\* left to read comes after all nodes.
C27_NodesInOrder ==
    NrdWhole =>
        /\ Len(NodesOf(nrd.rets)) <= Len(Walk(nrd.tree, <<>>))
        /\ \A j \in 1..Len(NodesOf(nrd.rets)) :
              NodesOf(nrd.rets)[j].tag = Walk(nrd.tree, <<>>)[j].tag
        /\ \A k \in 1..Len(nrd.rets) :
              /\ nrd.rets[k].err \in {"nil", "EOF"}
              /\ nrd.rets[k].err = "EOF" /\ nrd.rets[k].pos = Len(nrd.s)
                     => Len(NodesOf(SubSeq(nrd.rets, 1, k))) = Len(Walk(nrd.tree, <<>>))

\* C28: for every node returned by Next, Path() is the absolute path made of
\* the names of the enclosing directories and of the node's own name, "/" for
\* the root node.
C28_PathOfEveryNode ==
    NrdWhole =>
        \A j \in 1..Len(NodesOf(nrd.rets)) :
            j <= Len(Walk(nrd.tree, <<>>)) =>
                NodesOf(nrd.rets)[j].path = Walk(nrd.tree, <<>>)[j].path

\* C28, of what the code does: the path is right for every node whose name is
\* not the name of the directory it is in.
C28_PathUnlessNamedAsParent ==
    NrdWhole =>
        \A j \in 1..Len(NodesOf(nrd.rets)) :
            j <= Len(Walk(nrd.tree, <<>>)) =>
                \/ NodesOf(nrd.rets)[j].path = Walk(nrd.tree, <<>>)[j].path
                \/ /\ Walk(nrd.tree, <<>>)[j].tag # TagDir
                   /\ Walk(nrd.tree, <<>>)[j].path
                          = NodesOf(nrd.rets)[j].path \o <<47>> \o NodesOf(nrd.rets)[j].name

\* ------------------------------------------------------------------ claims: deadline and handles
\* C29: a cancellation that belongs to a finished operation never leaves a past
\* deadline on the connection for a later operation: whenever the deadline of
\* the connection is in the past, the mutex is held by an operation whose own
\* context is cancelled.
C29_NoStaleDeadline ==
    deadline = "past" => mu # 0 /\ ctxDone[mu]

\* the calls that release: the first Abort or failed CloseRequest when no
\* CloseRequest came before, and the first Close
HdlReleasing(i) ==
    \/ /\ hdl.calls[i] \in {"Abort", "CloseRequest: flush fails", "CloseRequest: stderr fails"}
       /\ \A j \in 1..(i - 1) : hdl.calls[j] \notin {"Abort", "CloseRequest: flush fails",
                                                     "CloseRequest: stderr fails",
                                                     "CloseRequest: response"}
    \/ /\ hdl.calls[i] = "Close"
       /\ \A j \in 1..(i - 1) : hdl.calls[j] # "Close"

\* C30: for every sequence of CloseRequest, Abort and Close calls on the
\* handles of one streaming operation, the mutex is unlocked at most once and
\* never while the operation does not hold it; the unlock is that of the first
\* call that ends the operation, and an Abort after CloseRequest, a second
\* CloseRequest, a second Abort and a second Close release nothing.
C30_UnlockedAtMostOnce ==
    hdl.pc = "open" =>
        /\ hdl.unlocks <= 1
        /\ hdl.unheld = 0
        /\ hdl.unlocks = Cardinality({i \in 1..Len(hdl.calls) : HdlReleasing(i)})
        /\ hdl.holder = "op" <=> hdl.unlocks = 0

\* CloseRequest returned a response, Abort was called after it, the response
\* was closed twice, and another operation holds the mutex since
C30_Witness ==
    /\ hdl.pc = "open"
    /\ hdl.calls = <<"CloseRequest: response", "Abort", "Close", "Close",
                     "CloseRequest: closed">>
    /\ hdl.holder = "other"
    /\ hdl.unlocks = 1

\* the copy goroutine of NarFromPath has ended with an error that the reader
\* will hand to the caller's next Read
ErrorPending(k) ==
    \/ cp[k] \in {"relErr", "closeErr"} /\ pipe[k] = "open"
    \/ pipe[k] = "err" /\ hres[k] = "none"

\* no operation has reported a ProtocolError, through its call or through the
\* handle the call returned, and none is about to
NoProtocolError ==
    \A k \in Ops : ~IsProto(res[k]) /\ hres[k] # "err" /\ ~ErrorPending(k)

\* the connection reader stands at the end of the replies to the operations
\* that have held the mutex: every unit of theirs that arrived was consumed,
\* and every consumed unit was consumed by the operation it answers
ReaderAligned ==
    /\ \A i \in 1..Len(inb) : inb[i].op \in SeqRange(lockSeq) => i <= rpos
    /\ \A i \in 1..rpos : readBy[i] = inb[i].op

\* C31: whenever the mutex is free and no operation has reported a
\* ProtocolError, the connection reader stands exactly at the end of the reply
\* to the last operation that held the mutex: nothing the daemon sent for it
\* is unread, also when a NarFromPath reader was closed before the end of the
\* archive, and nothing of a later reply was consumed.
C31_ReaderAtEndOfReply == (mu = 0 /\ NoProtocolError) => ReaderAligned

\* the same, for runs in which no NarFromPath reader was closed before its end
C31_AlignedUnlessClosedEarly ==
    (mu = 0 /\ NoProtocolError /\ \A k \in Ops : hres[k] # "early") => ReaderAligned

\* the stderr dispatcher has read a Last tag for operation k
LastRead(k) == \E i \in ReadSet(k) : inb[i].t = "Last"

\* the response reader of operation k has been invoked: readResp of doOp, the
\* OpResponse of Do and of the streaming wrappers, the copy goroutine of
\* NarFromPath
ResponseReaderInvoked(k) ==
    \/ \E p \in Callers : cur[p] = k /\ pc[p] \in {"resp", "respRead", "respClose", "narRead", "narClose"}
    \/ cp[k] # "off"
    \/ nread[k] # <<>>
    \/ hres[k] # "none"

\* this step reads a unit from the connection for the response reader
ReadsResponse ==
    /\ rpos' = rpos + 1
    /\ \/ \E p \in Callers : pc[p] \in {"resp", "respRead"} /\ cur[p] = readBy'[rpos']
       \/ cp[readBy'[rpos']] = "read"

C32_State == \A k \in Ops : ResponseReaderInvoked(k) => LastRead(k)

C32_Step == ReadsResponse => LastRead(readBy'[rpos'])

\* C32: in every operation the response reader is invoked, and a unit of the
\* response is read from the connection, only after the stderr dispatcher has
\* read a Last tag for that operation; an operation whose dispatcher returned
\* an error has read no Last tag, so its response reader is never invoked.
C32_NoResponseBeforeLast == []C32_State /\ [][C32_Step]_vars

\* one operation returned ok after reading a log message, Last and then its
\* response, and another returned the daemon's error without a response read
C32_Witness ==
    \E k, j \in Ops :
        /\ res[k] = "ok" /\ kind[k] = "doOp"
        /\ \E a, b, c \in ReadSet(k) :
              a < b /\ b < c /\ inb[a].t = "Next" /\ inb[b].t = "Last" /\ inb[c].t = "Resp"
        /\ res[j] = "daemonErr"
        /\ ~ResponseReaderInvoked(j)
        /\ ReadSet(j) # {}

\* the parts of operation k that have reached the connection, in order
Flushed(k) ==
    LET F[i \in 0..Len(out)] ==
            IF i = 0 THEN <<>>
            ELSE IF out[i].op = k THEN Append(F[i - 1], out[i].part) ELSE F[i - 1]
    IN F[Len(out)]

\* the whole request of an operation of call shape kd
WholeRequest(kd) == <<"code">> \o ReqParts(kd)

\* the stderr dispatcher of operation k has started
DispatcherStarted(p) == pc[p] \in {"stderr", "send", "errTrace"}

\* C33: whenever the stderr dispatcher runs for an operation of any call
\* shape, the buffered writer is empty and the connection has received the
\* operation's whole request in order: op code, request fields and, for a
\* streaming operation, the frames and the zero-length terminator.
C33_FlushedBeforeStderr ==
    \A p \in Callers : DispatcherStarted(p) =>
        /\ wbuf = <<>>
        /\ Flushed(cur[p]) = WholeRequest(kind[cur[p]])

\* the dispatcher of a streaming operation and, in the same run, that of a
\* plain operation have started
C33_Witness ==
    \E p \in Callers :
        /\ pc[p] = "stderr"
        /\ kind[cur[p]] = "stream"
        /\ Flushed(cur[p]) = <<"code", "req", "frame", "term">>
        /\ \E j \in Ops : j # cur[p] /\ kind[j] \in {"doOp", "Do"} /\ ReadSet(j) # {}

\* C34: newClient returns a Client only after the handshake has read, past the
\* trust word, the Last tag of the post-handshake stderr; once the server has
\* sent all it sends, a returned Client has left no word of the handshake
\* unread, so that the first operation's dispatcher starts at its own stderr.
C34_PostHandshakeStderrDrained ==
    hsRet.kind = "Client" =>
        /\ hsRd >= 1
        /\ hsIn[hsRd] = PutUint64(LogLast)
        /\ srv.sent = Len(srv.script) => hsRd = Len(hsIn)

\* the first n of the words a handshake writes: the client magic, the
\* negotiated version, the two false feature words
HsOwed(n) ==
    SubSeq(writeTestUint64(ClientMagic) \o writeTestUint64(hsLoc.negotiated)
               \o writeTestUint64(0) \o writeTestUint64(0), 1, n)

\* words of the server read once the Nix version string is read
HsVersionRead == 3 + DataWords(Len(hsLoc.daemonVersion))

\* the handshake is at step at, has handed written to its writer (flushed or
\* not) and has read rd words
HsProgress(at, written, rd) == hsPc = at => HsWritten = HsOwed(written) /\ hsRd = rd

\* C35: the handshake writes the client magic and flushes, reads the server
\* magic, reads the server version, writes the negotiated version and two
\* false feature words and flushes, reads the daemon version string, reads
\* the trust word, in this order; whenever it is about to read, its buffered
\* writer is empty; a returned Client has written exactly the four words and
\* read through the trust word.
C35_HandshakeOrder ==
    /\ hsPc \in {"readMagic", "readVersion", "readDaemonVersion", "readTrust"} => hsW = <<>>
    /\ HsProgress("writeMagic", 0, 0)
    /\ HsProgress("flushMagic", 1, 0)
    /\ HsProgress("readMagic", 1, 0)
    /\ HsProgress("readVersion", 1, 1)
    /\ HsProgress("writeVersion", 1, 2)
    /\ HsProgress("writeAffinity", 2, 2)
    /\ HsProgress("writeReserve", 3, 2)
    /\ HsProgress("flushFlags", 4, 2)
    /\ HsProgress("readDaemonVersion", 4, 2)
    /\ HsProgress("readTrust", 4, HsVersionRead)
    /\ hsRet.kind = "Client" =>
          /\ hsOut = HsOwed(4) /\ hsW = <<>>
          /\ hsRd = HsVersionRead + 1

\* a Client was returned with a non-empty daemon version, by a server that
\* advertises the client's own version and has not yet read the feature words
C35_Witness ==
    /\ hsRet.kind = "Client"
    /\ hsRet.DaemonNixVersion = Str9
    /\ srv.version = ProtocolVersion
    /\ srv.rd = 2

\* the byte positions of the wire at which a frame header starts
RECURSIVE FrameStartsFrom(_, _)
FrameStartsFrom(s, pos) ==
    IF pos + 8 > Len(s) THEN {}
    ELSE IF FrameLen(s, pos) = 0 THEN {pos}
    ELSE {pos} \cup FrameStartsFrom(s, FrameEnd(s, pos))

FrameStarts == FrameStartsFrom(fwOut, 0)

\* the data bytes of the frames, whole or cut short, that lie before byte upTo
RECURSIVE DataUpTo(_, _, _)
DataUpTo(s, pos, upTo) ==
    IF pos + 8 > Len(s) \/ pos + 8 > upTo THEN <<>>
    ELSE IF FrameLen(s, pos) = 0 THEN <<>>
    ELSE SubSeq(s, pos + 9, Min(Min(pos + 8 + FrameLen(s, pos), upTo), Len(s)))
             \o DataUpTo(s, FrameEnd(s, pos), upTo)

\* the reader stands in the data of a frame whose header it read at a frame
\* start, or at the end of that data with the padding still to skip
C36_InFrame ==
    \E p \in FrameStarts :
        /\ FrameLen(fwOut, p) = fr.prevFrameLen
        /\ frPos = p + 8 + fr.prevFrameLen - fr.remaining

\* C36: what a FramedReader has returned to its caller is exactly the data
\* bytes of the frames it has passed, so no header and no padding byte; every
\* length word it has read started where a frame starts, which is behind the
\* padding of the frame before; for every frame length the writer produces,
\* every size of the caller's buffer and every short read.
C36_PaddingNeverReturned ==
    /\ frGot = DataUpTo(fwOut, 0, frPos)
    /\ (~fr.done /\ ~fr.needHeader) => fr.remaining > 0 /\ C36_InFrame
    /\ (~fr.done /\ fr.needHeader /\ frPos > 0 /\ frRet \in {"nil", "EOF"}) =>
          fr.remaining = 0 /\ C36_InFrame
    /\ fr.done => (frPos - 8) \in FrameStarts /\ FrameLen(fwOut, frPos - 8) = 0

\* the reader has passed an aligned frame and a frame with padding, has read
\* the terminator behind the padding, and stands at the end of the wire
C36_Witness ==
    /\ fr.done
    /\ Len(frGot) > FrameSize
    /\ paddingLen(Len(frGot)) > 1
    /\ frPos = Len(fwOut)
    /\ frPos > 8 + Len(frGot) + 8 + 8

\* the wire strings at the head of byte sequence s, as far as they are whole
RECURSIVE TokensOf(_, _)
TokensOf(s, pos) ==
    IF pos + 8 > Len(s) THEN <<>>
    ELSE IF Uint64(SubSeq(s, pos + 1, pos + 8)) > Len(s) - pos - 8 THEN <<>>
    ELSE <<SubSeq(s, pos + 9, pos + 8 + Uint64(SubSeq(s, pos + 1, pos + 8)))>>
           \o TokensOf(s, FrameEnd(s, pos))

\* token i of t; a byte no token holds when t has no token i
At(t, i) == IF i \in 1..Len(t) THEN t[i] ELSE <<0>>

\* The grammar of the archive on tokens t from token i: the index behind the
\* phrase, 0 when t does not hold the phrase there.
\*   type_body := "regular" ["executable" <str>] ["contents" <bytes>]
\* and, with loose, "regular" ("executable" <str> | "contents" <bytes>)*
RECURSIVE GRegular(_, _, _, _)
GRegular(t, i, loose, seen) ==
    IF At(t, i) = TokClose THEN i + 1
    ELSE IF At(t, i) = TokExecutable /\ i + 1 <= Len(t) /\ (loose \/ seen = 0)
         THEN GRegular(t, i + 2, loose, 1)
    ELSE IF At(t, i) = TokContents /\ i + 1 <= Len(t) /\ (loose \/ seen < 2)
         THEN GRegular(t, i + 2, loose, 2)
    ELSE 0

\*   type_body := "symlink" "target" <str>
GSymlink(t, i) ==
    IF At(t, i) = TokTarget /\ i + 1 <= Len(t) /\ At(t, i + 2) = TokClose
    THEN i + 3 ELSE 0

RECURSIVE GNode(_, _, _)
RECURSIVE GDirectory(_, _, _)

\*   type_body := "directory" entry*
\*   entry := "entry" "(" "name" <str> "node" node ")"
GDirectory(t, i, loose) ==
    IF At(t, i) = TokClose THEN i + 1
    ELSE IF At(t, i) = TokEntry /\ At(t, i + 1) = TokOpen /\ At(t, i + 2) = TokName
              /\ i + 3 <= Len(t) /\ At(t, i + 4) = TokNode
              /\ GNode(t, i + 5, loose) # 0
              /\ At(t, GNode(t, i + 5, loose)) = TokClose
         THEN GDirectory(t, GNode(t, i + 5, loose) + 1, loose)
    ELSE 0

\*   node := "(" "type" type_body ")"
GNode(t, i, loose) ==
    IF At(t, i) # TokOpen \/ At(t, i + 1) # TokType THEN 0
    ELSE IF At(t, i + 2) = TokRegular THEN GRegular(t, i + 3, loose, 0)
    ELSE IF At(t, i + 2) = TokSymlink THEN GSymlink(t, i + 3)
    ELSE IF At(t, i + 2) = TokDirectory THEN GDirectory(t, i + 3, loose)
    ELSE 0

\*   nar := "nix-archive-1" node
Conforms(s, loose) ==
    LET t == TokensOf(s, 0)
    IN  At(t, 1) = TokMagic /\ GNode(t, 2, loose) # 0

NarSucceeded == narRes.kind = "returned" /\ ~Failed(narRes.c)

\* C37: copyNAR returns nil only when its input starts with an archive of the
\* grammar: the magic, then a node of type regular, symlink or directory, a
\* regular node holding at most one executable marker and after it at most
\* one contents field.
C37_SuccessOnlyOnGrammar == NarSucceeded => Conforms(narSrc, FALSE)

\* the same for the grammar in which a regular node holds executable markers
\* and contents fields in any number and order
C37_SuccessOnlyOnLooseGrammar == NarSucceeded => Conforms(narSrc, TRUE)

\* the copy ended on a small token declared longer than maxTokenSize
TokenTooLarge(c) ==
    /\ Failed(c)
    /\ Errorf("NAR token too large")
          \in {c.err[1]} \cup {c.err[1].cause[i] : i \in 1..Len(c.err[1].cause)}

\* LongTokenNar up to and with the length word of its symlink target
LongTokenHead == SubSeq(LongTokenNar, 1, Len(LongTokenNar) - 8)

\* C38: copyNAR never allocates more than maxTokenSize bytes for a token; a
\* small token declared longer ends the copy with an error when only its
\* length word has been read and echoed; contents longer than maxTokenSize
\* are copied whole without such a buffer.
C38_SmallTokensBounded ==
    narRes.kind = "returned" =>
        /\ narRes.c.held <= maxTokenSize
        /\ TokenTooLarge(narRes.c) =>
              /\ narRes.c.pos >= 8
              /\ Uint64(SubSeq(narSrc, narRes.c.pos - 7, narRes.c.pos)) > maxTokenSize
              /\ narRes.c.dst = SubSeq(narSrc, 1, narRes.c.pos)
        /\ (IsPrefix(LongTokenHead, narSrc) /\ ~narLeft.limited) =>
              /\ TokenTooLarge(narRes.c)
              /\ narRes.c.pos = Len(LongTokenHead)
        /\ (narSrc = BigContentsNar /\ ~narLeft.limited) =>
              /\ ~Failed(narRes.c)
              /\ narRes.c.dst = BigContentsNar

\* the symlink target declared 4097 bytes long was refused with bytes behind
\* its length word still unread, and the caller's Read has returned the error
C38_Witness ==
    /\ narRes.kind = "returned"
    /\ TokenTooLarge(narRes.c)
    /\ narRes.c.pos = Len(LongTokenHead)
    /\ Len(narSrc) > narRes.c.pos
    /\ narGot = LongTokenHead
    /\ narRet = Errorf("NAR token too large")

\* the archive with contents of 4097 bytes was copied and read to the end
C38_WitnessContents ==
    /\ narRes.kind = "returned"
    /\ narSrc = BigContentsNar
    /\ narGot = BigContentsNar
    /\ narRet = IoError("EOF")
    /\ narRes.c.held < maxTokenSize

\* ------------------------------------------------------------------ AddToStoreNar, AddBuildLog
OpAddToStoreNar == 39
OpAddBuildLog == 45

\* writes the connection accepts before it breaks, when it breaks
MaxAsnAccepted == 12

\* what the caller's source delivers before its end, or before it fails
AsnSources == {<<>>, <<7>>, Str9}

\* the arguments of a call
AsnCalls ==
    {[call |-> "AddToStoreNar", op |-> OpAddToStoreNar, info |-> info, repair |-> repair,
      dontCheckSigs |-> dontCheckSigs, drvPath |-> <<>>] :
        info \in {InfoOne, InfoTwo}, repair \in BOOLEAN, dontCheckSigs \in BOOLEAN}
    \cup
    {[call |-> "AddBuildLog", op |-> OpAddBuildLog, info |-> InfoOne, repair |-> FALSE,
      dontCheckSigs |-> FALSE, drvPath |-> drvPath] : drvPath \in {Str1, Str9}}

\* AddToStoreNar or AddBuildLog is called
AsnInit ==
    /\ EarlierOff
    /\ AmsOff /\ QpiOff /\ CdcOff /\ NrdOff /\ HdlOff
    /\ \E args \in AsnCalls, source \in AsnSources, sourceFails \in BOOLEAN,
          left \in {[limited |-> FALSE, n |-> 0]}
                     \cup {[limited |-> TRUE, n |-> k] : k \in 0..MaxAsnAccepted} :
          asn = [pc |-> "DoStreaming", args |-> args, source |-> source,
                 sourceFails |-> sourceFails,
                 w |-> [out |-> <<>>, left |-> left, err |-> FALSE],
                 flushed |-> 0,
                 fw |-> [buf |-> <<>>, closed |-> FALSE],
                 stderrAt |-> <<>>,
                 locked |-> FALSE, unlocks |-> 0,
                 ret |-> [kind |-> "running"]]

\* the bufio.Writer at the start of a call on it
AsnW == [asn.w EXCEPT !.err = FALSE]

AsnOpName(step) == <<asn.args.call, step>>

\* ow.Abort() and the return of a ProtocolError
AsnAbort(w, fwr, step) ==
    asn' = [asn EXCEPT !.pc = "done", !.w = w, !.fw = fwr, !.locked = FALSE,
                       !.unlocks = @ + 1, !.ret = ProtocolError(AsnOpName(step))]

AsnGoto(next, w, fwr) ==
    asn' = [asn EXCEPT !.pc = next, !.w = w, !.fw = fwr]

\* DoStreaming: lock, write the operation code
AsnDoStreaming ==
    /\ asn.pc = "DoStreaming"
    /\ LET w == Accept(AsnW, PutUint64(asn.args.op))
       IN  IF w.err
           THEN asn' = [asn EXCEPT !.pc = "done", !.w = w, !.unlocks = @ + 1,
                                   !.ret = ProtocolError(AsnOpName("write op"))]
           ELSE asn' = [asn EXCEPT !.w = w, !.locked = TRUE,
                                   !.pc = IF asn.args.call = "AddToStoreNar"
                                          THEN "pathInfo" ELSE "drvPath"]
    /\ UNCHANGED AsnOthers

\* AddToStoreNar: WritePathInfo(ow, info)
AsnWritePathInfo ==
    /\ asn.pc = "pathInfo"
    /\ LET w == Accept(AsnW, WritePathInfo(asn.args.info))
       IN  IF w.err THEN AsnAbort(w, asn.fw, "write path info")
           ELSE AsnGoto("repair", w, asn.fw)
    /\ UNCHANGED AsnOthers

\* AddToStoreNar: wire.WriteBool(ow, repair)
AsnWriteRepair ==
    /\ asn.pc = "repair"
    /\ LET w == Accept(AsnW, WriteBool(asn.args.repair))
       IN  IF w.err THEN AsnAbort(w, asn.fw, "write repair")
           ELSE AsnGoto("dontCheckSigs", w, asn.fw)
    /\ UNCHANGED AsnOthers

\* AddToStoreNar: wire.WriteBool(ow, dontCheckSigs)
AsnWriteDontCheckSigs ==
    /\ asn.pc = "dontCheckSigs"
    /\ LET w == Accept(AsnW, WriteBool(asn.args.dontCheckSigs))
       IN  IF w.err THEN AsnAbort(w, asn.fw, "write dontCheckSigs")
           ELSE AsnGoto("flush", w, asn.fw)
    /\ UNCHANGED AsnOthers

\* AddBuildLog: wire.WriteString(ow, drvPath)
AsnWriteDrvPath ==
    /\ asn.pc = "drvPath"
    /\ LET w == Accept(AsnW, WireString(asn.args.drvPath))
       IN  IF w.err THEN AsnAbort(w, asn.fw, "write drvPath")
           ELSE AsnGoto("flush", w, asn.fw)
    /\ UNCHANGED AsnOthers

\* ow.Flush() before the framed stream
AsnFlush ==
    /\ asn.pc = "flush"
    /\ LET w == Accept(AsnW, <<>>)
       IN  IF w.err THEN AsnAbort(w, asn.fw, "flush")
           ELSE asn' = [asn EXCEPT !.pc = "copy", !.w = w, !.flushed = Len(w.out)]
    /\ UNCHANGED AsnOthers

\* fw := ow.NewFramedWriter(); io.Copy(fw, source): what the source delivers
\* is written to the framed writer; a failure of the source or of a write
\* ends the call
AsnCopy ==
    /\ asn.pc = "copy"
    /\ LET st == WriteLoop([w |-> AsnW, buf |-> asn.fw.buf, p |-> asn.source, written |-> 0])
           fwr == [asn.fw EXCEPT !.buf = st.buf]
       IN  IF st.w.err \/ asn.sourceFails THEN AsnAbort(st.w, fwr, "stream data")
           ELSE AsnGoto("close", st.w, fwr)
    /\ UNCHANGED AsnOthers

\* a Close of the framed writer that writes no terminator
AsnCloseFramedOpen ==
    /\ asn.pc = "close"
    /\ LET f == flush(AsnW, asn.fw.buf)
           fwr == [buf |-> f.buf, closed |-> TRUE]
       IN  IF f.w.err THEN AsnAbort(f.w, fwr, "close framed writer")
           ELSE AsnGoto("closeRequest", f.w, fwr)
    /\ UNCHANGED AsnOthers

\* fw.Close()
AsnCloseFramed ==
    /\ asn.pc = "close"
    /\ LET f == flush(AsnW, asn.fw.buf)
           w == Accept(f.w, PutUint64(0))
           fwr == [buf |-> f.buf, closed |-> TRUE]
       IN  IF w.err THEN AsnAbort(w, fwr, "close framed writer")
           ELSE AsnGoto("closeRequest", w, fwr)
    /\ UNCHANGED AsnOthers

\* ow.CloseRequest(): the flush
AsnCloseRequest ==
    /\ asn.pc = "closeRequest"
    /\ LET w == Accept(AsnW, <<>>)
       IN  IF w.err THEN AsnAbort(w, asn.fw, "flush")
           ELSE asn' = [asn EXCEPT !.pc = "stderr", !.w = w, !.flushed = Len(w.out)]
    /\ UNCHANGED AsnOthers

\* ow.CloseRequest(): ProcessStderr on what the daemon replies; resp.Close()
AsnProcessStderr ==
    /\ asn.pc = "stderr"
    /\ \E reply \in {"LogLast", "LogError"} :
          asn' = [asn EXCEPT !.pc = "done",
                             !.stderrAt = <<[written |-> Len(asn.w.out),
                                             flushed |-> asn.flushed]>>,
                             !.locked = FALSE, !.unlocks = @ + 1,
                             !.ret = IF reply = "LogLast" THEN [kind |-> "nil"]
                                     ELSE [kind |-> "DaemonError"]]
    /\ UNCHANGED AsnOthers

AsnStep ==
    \/ AsnDoStreaming \/ AsnWritePathInfo \/ AsnWriteRepair \/ AsnWriteDontCheckSigs
    \/ AsnWriteDrvPath \/ AsnFlush \/ AsnCopy \/ AsnCloseFramed
    \/ AsnCloseRequest \/ AsnProcessStderr

SpecAddNar == AsnInit /\ [][AsnStep]_vars

\* ------------------------------------------------------------------ claims: AddToStoreNar, AddBuildLog
\* the op code and the unframed preamble of the call
AsnUnframed ==
    PutUint64(asn.args.op) \o
        (IF asn.args.call = "AddToStoreNar"
         THEN WritePathInfo(asn.args.info) \o WriteBool(asn.args.repair)
                  \o WriteBool(asn.args.dontCheckSigs)
         ELSE WireString(asn.args.drvPath))

\* what was written behind the preamble, read as frames
AsnWire ==
    ParseFrames(SubSeq(asn.w.out, Len(AsnUnframed) + 1, Len(asn.w.out)), 0, <<>>, 0)

\* C39: what AddToStoreNar and AddBuildLog have written is at every moment a
\* prefix of: the op code, the unframed preamble (the PathInfo, repair and
\* dontCheckSigs; or the derivation path), frames that carry the payload in
\* order, one zero-length terminator; nothing follows the terminator; and
\* when the stderr stream is read all of it was written and flushed.
C39_RequestOrder ==
    /\ asn.pc # "off"
    /\ \/ IsPrefix(asn.w.out, AsnUnframed)
       \/ /\ IsPrefix(AsnUnframed, asn.w.out)
          /\ asn.flushed >= Len(AsnUnframed)
          /\ AsnWire.kind # "bad"
          /\ IsPrefix(AsnWire.data, asn.source)
          /\ AsnWire.kind = "terminated" =>
                /\ AsnWire.data = asn.source
                /\ AsnWire.end = Len(asn.w.out) - Len(AsnUnframed)
    /\ asn.stderrAt # <<>> =>
          /\ IsPrefix(AsnUnframed, asn.w.out)
          /\ AsnWire.kind = "terminated"
          /\ asn.stderrAt[1].written = Len(asn.w.out)
          /\ asn.stderrAt[1].flushed = Len(asn.w.out)

\* AddToStoreNar has returned nil after a payload of more than one frame, and
\* the stderr stream was read behind the terminator
C39_Witness ==
    /\ asn.pc = "done"
    /\ asn.args.call = "AddToStoreNar"
    /\ asn.args.repair /\ ~asn.args.dontCheckSigs
    /\ asn.source = Str9
    /\ asn.ret = [kind |-> "nil"]
    /\ AsnWire.frames = 2
    /\ asn.stderrAt # <<>>

\* the same for AddBuildLog
C39_WitnessBuildLog ==
    /\ asn.pc = "done"
    /\ asn.args.call = "AddBuildLog"
    /\ asn.source = Str9
    /\ asn.ret = [kind |-> "nil"]
    /\ AsnWire.frames = 2

\* ---------------------------------------------------------------------
\* C40: the deprecated words of SetOptions and CollectGarbage

\* the i-th 8-byte word of a byte sequence
WordAt(s, i) == Uint64(SubSeq(s, 8 * (i - 1) + 1, 8 * i))

\* the words of a written SetOptions request that carry the settings
\* given, each at its own position
SettingsWords(s, settings) ==
    /\ WordAt(s, 1) = (IF settings.KeepFailed THEN 1 ELSE 0)
    /\ WordAt(s, 2) = (IF settings.KeepGoing THEN 1 ELSE 0)
    /\ WordAt(s, 3) = (IF settings.TryFallback THEN 1 ELSE 0)
    /\ WordAt(s, 4) = settings.Verbosity
    /\ WordAt(s, 5) = settings.MaxBuildJobs
    /\ WordAt(s, 6) = settings.MaxSilentTime
    /\ WordAt(s, 8) = settings.BuildVerbosity
    /\ WordAt(s, 11) = settings.BuildCores
    /\ WordAt(s, 12) = (IF settings.UseSubstitutes THEN 1 ELSE 0)

\* a written CollectGarbage request ends with maxFreed and three zero words
GCRequestTail(s, options) ==
    LET n == Len(s) \div 8
    IN  /\ Len(s) = 8 * n
        /\ n = 3 + Len(WriteStrings(options.PathsToDelete)) \div 8 + 3
        /\ WordAt(s, 1) = options.Action
        /\ WordAt(s, n - 3) = options.MaxFreed
        /\ WordAt(s, n - 2) = 0
        /\ WordAt(s, n - 1) = 0
        /\ WordAt(s, n) = 0

\* a CollectGarbage response succeeds exactly when the deprecated word
\* arrived, and then the reader stands one word past bytesFreed
GCResponseRead(s, reply, got) ==
    LET afterFreed == Len(GCReplyBytes(reply)) - 8
    IN  IF Len(s) >= afterFreed + 8
        THEN /\ got.ok
             /\ got.Paths = SliceOf(reply.paths)
             /\ got.BytesFreed = reply.freed
             /\ got.pos = afterFreed + 8
        ELSE ~got.ok

\* C40: whatever the settings, the 7th, 9th and 10th words that SetOptions
\* writes after its op code are useBuildHook = 1, logType = 0 and
\* printBuildTrace = 0, with the settings at the other positions; a
\* CollectGarbage request ends with maxFreed followed by three zero words;
\* and reading a CollectGarbage response consumes exactly one more word
\* after bytesFreed, failing when that word is missing.
C40_DeprecatedWords ==
    /\ (cdc.pc = "written" /\ cdc.op = "WriteClientSettings") =>
          /\ WordAt(cdc.bytes, 7) = 1
          /\ WordAt(cdc.bytes, 9) = 0
          /\ WordAt(cdc.bytes, 10) = 0
          /\ SettingsWords(cdc.bytes, cdc.val)
    /\ (cdc.pc = "written" /\ cdc.op = "CollectGarbage") =>
          GCRequestTail(cdc.bytes, cdc.val)
    /\ cdc.pc = "gcRead" => GCResponseRead(cdc.bytes, cdc.reply, cdc.got)

\* a response with a nonzero deprecated word, followed by the next reply,
\* has been read up to the end of that word
C40_Witness ==
    /\ cdc.pc = "gcRead"
    /\ cdc.got.ok
    /\ cdc.reply.word = 7
    /\ cdc.reply.paths = <<Str1, Str0>>
    /\ cdc.got.pos = Len(GCReplyBytes(cdc.reply))
    /\ Len(cdc.bytes) = cdc.got.pos + 8

\* settings that differ from the defaults in every field have been written
C40_WitnessSettings ==
    /\ cdc.pc = "written"
    /\ cdc.op = "WriteClientSettings"
    /\ cdc.val.KeepFailed /\ cdc.val.KeepGoing /\ cdc.val.TryFallback
    /\ ~cdc.val.UseSubstitutes
    /\ cdc.val.Verbosity = 7 /\ cdc.val.MaxBuildJobs = 16
    /\ cdc.val.MaxSilentTime = 3600 /\ cdc.val.BuildVerbosity = 7
    /\ cdc.val.BuildCores = 8
    /\ cdc.val.Overrides # << >>

\* a request to delete specific paths with a maxFreed limit has been written
C40_WitnessRequest ==
    /\ cdc.pc = "written"
    /\ cdc.op = "CollectGarbage"
    /\ cdc.val.Action = 3
    /\ cdc.val.PathsToDelete = SliceOf(<<Str9>>)
    /\ cdc.val.MaxFreed = 4096

====
